---- MODULE Spec2Model ----
(***************************************************************************)
(* Durable job queue of MoneyPrinterTurbo: the SQLite job store            *)
(* (app/utils/db.py), the polling worker threads                           *)
(* (app/services/task_worker.py) and the operator actions of the batch     *)
(* dashboard (webui/pages/1_Batch_Dashboard.py).                           *)
(*                                                                         *)
(* Every SQL transaction of the store is one step.  The EXCLUSIVE          *)
(* transaction of claim_next_pending_job is three steps (BEGIN, SELECT,    *)
(* UPDATE+COMMIT / ROLLBACK) that hold the database lock; every other      *)
(* statement waits for that lock.                                          *)
(***************************************************************************)
EXTENDS Integers, Sequences, FiniteSets, TLC

\* ------------------------------------------------------------- bounds
MaxJobs == 2          \* job ids 1..MaxJobs
NumWorkers == 2       \* polling threads of the worker specifications
NumCallers == 3       \* racing callers of claim_next_pending_job
NumInserters == 2     \* racing callers of insert_job / add_job
MaxTime == 3          \* the clock runs 0..MaxTime
TicksPerDay == 3      \* clock ticks per calendar day
MaxTimeout == 1       \* fail_stuck_jobs(timeout_hours) with 0..MaxTimeout
MaxRuns == 2          \* calls of task.start by a direct caller
MaxVideoCount == 6    \* params.video_count in 1..MaxVideoCount
TicksPerSecond == 2   \* resolution of time.time()
CacheTtlSeconds == 2  \* stands for _CACHE_TTL_SECONDS (7 days), scaled down
MaxCacheTicks == 6    \* the clock of the cache runs 0..MaxCacheTicks
MaxSets == 2          \* calls of llm_cache.set
MaxStarts == 2        \* calls of TaskWorker.start
MaxLeftover == 1      \* threads a timed-out join leaves behind, beyond MaxThreads

\* ------------------------------------------------- program constants
MaxThreads == 5       \* task_worker.py: max(1, min(num_workers, 5))

JobIds == 1..MaxJobs
Threads == 1..(MaxThreads + MaxLeftover)
Workers == 1..NumWorkers
Callers == 1..NumCallers
Inserters == 1..NumInserters
Times == 0..MaxTime

NULL == "NULL"
Topics == {"Ocean Facts", "Space Facts"}
\* meta arguments of insert_job: None, an empty dict, a non-empty dict
Metas == {"None", "EmptyDict", "Dict"}
\* search terms, as sequences of characters, and video urls
SearchTerms == {<<"s", "e", "a">>, <<"s", "e", "a", "?">>, <<"r", "e", "d", " ", "s", "e", "a">>}
VideoUrls == {[base |-> "u1", query |-> ""], [base |-> "u1", query |-> "h=720"],
              [base |-> "u2", query |-> ""]}

VARIABLES
    jobs,       \* the jobs table: job id -> row, or NoRow
    dbLock,     \* thread holding the EXCLUSIVE lock of the database, 0: none
    now,        \* datetime.now(), in ticks
    stopEvent,  \* TaskWorker._stop_event
    wpc,        \* position of each thread in _run_loop / _process_job
    wjob,       \* the row dict a thread got from claim_next_pending_job
    wres,       \* what tm.start gave the thread
    wloopErr,   \* 1 once an exception has reached the except of _run_loop
    wdbErr,     \* 1 once db.py has caught a store error in a call of the thread
    ipc,        \* position of each caller of insert_job
    iarg,       \* the arguments of that call
    stuckCall,  \* timeout of the fail_stuck_jobs call that produced this state, else -1
    bpc,        \* position of run_batch in its loop over the topics
    btopic,     \* the topic run_batch is at
    bexisting,  \* id of the row get_job_by_topic gave run_batch, 0: none
    bid,        \* task_id of the topic, 0 before its row is inserted
    battempt,   \* attempt of the retry loop of run_batch
    bdelay,     \* seconds run_batch slept before the current attempt
    tasks,      \* sm.state: task id -> state, progress and recorded outputs
    disk,       \* the files of utils.task_dir(task_id), per task id
    tpc,        \* position of the thread running task.start
    tcall,      \* the arguments of that call of task.start
    tloc,       \* its local variables
    tres,       \* what the call returned
    apc,        \* position of the pool thread running _run_audio
    mpc,        \* position of the pool thread running _run_materials
    invoked,    \* the collaborators the call has invoked so far
    runs,       \* number of calls of task.start so far
    cache,      \* the llm_cache table: rows (cache_key, response, created_at)
    cnow,       \* time.time(), in ticks of 1 / TicksPerSecond s
    cret,       \* the call of llm_cache that has just returned, with its result
    chist,      \* per (prompt_type, parameters): response and time of the last set
    nsets,      \* number of calls of llm_cache.set so far
    cdown,      \* the sqlite store of the cache raises on every use
    running,    \* TaskWorker._running
    wthreads,   \* TaskWorker._threads
    ppc,        \* position of the caller of TaskWorker.stop
    pjoin,      \* the list TaskWorker.stop is joining
    nstarts,    \* number of calls of TaskWorker.start so far
    dpc,        \* per Task: position of the run in its file accesses
    dreq,       \* per Task: search term, video url and material_directory
    dacc,       \* per Task: the files it has open, as <<mode, path>>
    fsfiles     \* paths of the files on disk of size > 0

vars == <<jobs, dbLock, now, stopEvent, wpc, wjob, wres, wloopErr, wdbErr, ipc, iarg,
          stuckCall, bpc, btopic, bexisting, bid, battempt, bdelay,
          tasks, disk, tpc, tcall, tloc, tres, apc, mpc, invoked, runs,
          cache, cnow, cret, chist, nsets, cdown,
          running, wthreads, ppc, pjoin, nstarts,
          dpc, dreq, dacc, fsfiles>>
batchVars == <<bpc, btopic, bexisting, bid, battempt, bdelay>>
workerVars == <<wpc, wjob, wres, wloopErr, wdbErr>>
insertVars == <<ipc, iarg>>
cacheVars == <<cache, cnow, cret, chist, nsets, cdown>>
poolVars == <<running, wthreads, ppc, pjoin, nstarts>>
fileVars == <<dpc, dreq, dacc, fsfiles>>
runVars == <<tasks, tpc, tcall, tloc, tres, apc, mpc, invoked, runs>>
taskVars == <<tasks, disk, tpc, tcall, tloc, tres, apc, mpc, invoked, runs>>

\* ------------------------------------------------------- timestamps
\* A stored timestamp is TEXT.  A datetime bound as a parameter is adapted
\* to 'YYYY-MM-DD HH:MM:SS.ffffff' (separator " "); datetime.isoformat()
\* gives 'YYYY-MM-DDTHH:MM:SS.ffffff' (separator "T").
Adapted(t) == [t |-> t, sep |-> " "]
IsoFormat(t) == [t |-> t, sep |-> "T"]

DayOf(t) == t \div TicksPerDay
TimeOfDay(t) == t % TicksPerDay
SepRank(s) == IF s = " " THEN 0 ELSE 1

\* SQLite's  a < b  on two timestamp texts: the date, then the separator
\* character, then the time of day.
TextLess(a, b) ==
    \/ DayOf(a.t) < DayOf(b.t)
    \/ /\ DayOf(a.t) = DayOf(b.t)
       /\ \/ SepRank(a.sep) < SepRank(b.sep)
          \/ /\ a.sep = b.sep
             /\ TimeOfDay(a.t) < TimeOfDay(b.t)

\* ------------------------------------------------------------- rows
NoRow == [status |-> "absent"]
NoJob == [id |-> 0]
NoResult == [kind |-> "None"]
NoArg == [op |-> "none"]

HasRow(js, id) == js[id] # NoRow

\* json.dumps(meta) if meta else "{}"
MetaStr(meta) == IF meta = "Dict" THEN "{\"a\": 1}" ELSE "{}"

\* The row an INSERT of insert_job / add_job creates; the columns the
\* statement does not name take the schema's defaults.
NewRow(topic, category, status, meta, prompt_hash, t) ==
    [status |-> status, topic |-> topic, category |-> category,
     created_at |-> Adapted(t), updated_at |-> Adapted(t),
     output_path |-> NULL, attempts |-> 0, error_message |-> NULL,
     meta_json |-> MetaStr(meta), duration_seconds |-> NULL,
     prompt_hash |-> prompt_hash]

\* INSERT OR REPLACE in place of INSERT
InsertOrReplaceRow(js, id, row) == [js EXCEPT ![id] = row]

\* INSERT INTO jobs ... : the PRIMARY KEY makes the statement fail on an
\* existing id, and the except of insert_job swallows the IntegrityError.
InsertRow(js, id, row) ==
    IF HasRow(js, id) THEN js ELSE [js EXCEPT ![id] = row]

\* UPDATE jobs SET status = ?, updated_at = ? [, error_message = ?]
\* [, output_path = ?] [, attempts = ?] WHERE id = ?
\* An argument left None keeps its column.
UpdateJobStatus(js, id, status, error_message, output_path, attempts, t) ==
    IF ~HasRow(js, id) THEN js
    ELSE [js EXCEPT ![id] =
            [@ EXCEPT !.status = status,
                      !.updated_at = Adapted(t),
                      !.error_message = IF error_message = NULL THEN @ ELSE error_message,
                      !.output_path = IF output_path = NULL THEN @ ELSE output_path,
                      !.attempts = IF attempts = -1 THEN @ ELSE attempts]]

\* UPDATE jobs SET status = 'pending', error_message = NULL, attempts = 0,
\* updated_at = ? WHERE id = ?
ResetJobForRetry(js, id, t) ==
    IF ~HasRow(js, id) THEN js
    ELSE [js EXCEPT ![id] =
            [@ EXCEPT !.status = "pending", !.error_message = NULL,
                      !.attempts = 0, !.updated_at = Adapted(t)]]

\* DELETE FROM jobs WHERE id = ?
DeleteJob(js, id) == [js EXCEPT ![id] = NoRow]

\* UPDATE jobs SET duration_seconds = ? WHERE id = ?
UpdateJobDuration(js, id) ==
    IF ~HasRow(js, id) THEN js
    ELSE [js EXCEPT ![id] = [@ EXCEPT !.duration_seconds = "elapsed"]]

\* fail_stuck_jobs without  status = 'processing'  in its WHERE clause
StuckSelectedAnyStatus(js, id, timeout, t) ==
    /\ HasRow(js, id)
    /\ timeout > 0 => TextLess(js[id].updated_at, Adapted(t - timeout))

\* The rows fail_stuck_jobs(timeout_hours) updates.
StuckSelected(js, id, timeout, t) ==
    /\ HasRow(js, id)
    /\ js[id].status = "processing"
    /\ timeout > 0 => TextLess(js[id].updated_at, Adapted(t - timeout))

\* UPDATE jobs SET status = 'failed', error_message = ... WHERE
\* status = 'processing' [AND updated_at < ?]
FailStuckJobs(js, timeout, t) ==
    [id \in JobIds |->
        IF StuckSelected(js, id, timeout, t)
        THEN [js[id] EXCEPT !.status = "failed",
                            !.error_message = IF timeout > 0 THEN "Timeout/Stuck"
                                              ELSE "System crash or restart"]
        ELSE js[id]]

\* SELECT * FROM jobs WHERE status = 'pending' ORDER BY created_at ASC
\* LIMIT 1 : the candidates (rows of equal created_at tie).
PendingIds(js) == {id \in JobIds : HasRow(js, id) /\ js[id].status = "pending"}
\* the SELECT without its ORDER BY: any pending row
AnyPending(js) == PendingIds(js)
OldestPending(js) ==
    {id \in PendingIds(js) :
        \A o \in PendingIds(js) : ~TextLess(js[o].created_at, js[id].created_at)}

\* dict(row): the row as selected, with its id
RowDict(js, id) == [id |-> id, topic |-> js[id].topic, attempts |-> js[id].attempts,
                    meta_json |-> js[id].meta_json]

\* UPDATE jobs SET status = 'processing', updated_at = ? WHERE id = ?
\* with datetime.now().isoformat()
ClaimUpdate(js, id, t) ==
    IF ~HasRow(js, id) THEN js
    ELSE [js EXCEPT ![id] = [@ EXCEPT !.status = "processing",
                                      !.updated_at = IsoFormat(t)]]

\* ------------------------------------------------------ worker threads
\* BEGIN (deferred) in place of BEGIN EXCLUSIVE: no waiting
LockIgnored == TRUE

\* BEGIN EXCLUSIVE waits until no other connection holds the lock.
LockFree == dbLock = 0

\* Statements outside claim_next_pending_job wait for the EXCLUSIVE lock.
DbReady == dbLock = 0

\* _run_loop: while not self._stop_event.is_set()
LoopCheck(w) ==
    /\ wpc[w] = "poll"
    /\ wpc' = [wpc EXCEPT ![w] = IF stopEvent THEN "stopped" ELSE "begin"]
    /\ stuckCall' = -1
    /\ UNCHANGED <<jobs, dbLock, now, stopEvent, wjob, wres, wloopErr, wdbErr, insertVars, batchVars, taskVars, cacheVars, poolVars, fileVars>>

\* claim_next_pending_job: BEGIN EXCLUSIVE
ClaimBegin(w) ==
    /\ wpc[w] = "begin"
    /\ LockFree
    /\ dbLock' = w
    /\ wpc' = [wpc EXCEPT ![w] = "select"]
    /\ stuckCall' = -1
    /\ UNCHANGED <<jobs, now, stopEvent, wjob, wres, wloopErr, wdbErr, insertVars, batchVars, taskVars, cacheVars, poolVars, fileVars>>

\* claim_next_pending_job: SELECT ... LIMIT 1; row = c.fetchone()
ClaimSelect(w) ==
    /\ wpc[w] = "select"
    /\ \/ /\ OldestPending(jobs) = {}
          /\ wjob' = [wjob EXCEPT ![w] = NoJob]
       \/ \E id \in OldestPending(jobs) :
             wjob' = [wjob EXCEPT ![w] = RowDict(jobs, id)]
    /\ wpc' = [wpc EXCEPT ![w] = "commit"]
    /\ stuckCall' = -1
    /\ UNCHANGED <<jobs, dbLock, now, stopEvent, wres, wloopErr, wdbErr, insertVars, batchVars, taskVars, cacheVars, poolVars, fileVars>>

\* claim_next_pending_job: UPDATE + COMMIT and return job, or ROLLBACK and
\* return None (then _run_loop sleeps 2 s)
ClaimCommit(w) ==
    /\ wpc[w] = "commit"
    /\ jobs' = IF wjob[w] = NoJob THEN jobs ELSE ClaimUpdate(jobs, wjob[w].id, now)
    /\ dbLock' = IF dbLock = w THEN 0 ELSE dbLock
    /\ wpc' = [wpc EXCEPT ![w] = IF wjob[w] = NoJob THEN "idle" ELSE "claimed"]
    /\ stuckCall' = -1
    /\ UNCHANGED <<now, stopEvent, wjob, wres, wloopErr, wdbErr, insertVars, batchVars, taskVars, cacheVars, poolVars, fileVars>>

\* _run_loop: time.sleep(2) is over
Wake(w) ==
    /\ wpc[w] = "idle"
    /\ wpc' = [wpc EXCEPT ![w] = "poll"]
    /\ stuckCall' = -1
    /\ UNCHANGED <<jobs, dbLock, now, stopEvent, wjob, wres, wloopErr, wdbErr, insertVars, batchVars, taskVars, cacheVars, poolVars, fileVars>>

\* claim_next_pending_job: the store raises (database is locked, disk I/O
\* error); the except logs it and the function returns None
ClaimFail(w) ==
    /\ wpc[w] = "begin"
    /\ wpc' = [wpc EXCEPT ![w] = "idle"]
    /\ wdbErr' = [wdbErr EXCEPT ![w] = 1]
    /\ stuckCall' = -1
    /\ UNCHANGED <<jobs, dbLock, now, stopEvent, wjob, wres, wloopErr, insertVars, batchVars, taskVars, cacheVars, poolVars, fileVars>>

\* _process_job: db.update_job_status(job_id, 'processing'); with fail, the
\* store raises inside update_job_status, whose except logs and returns.
ProcessStart(w, fail) ==
    /\ wpc[w] = "claimed"
    /\ DbReady
    /\ jobs' = IF fail THEN jobs
               ELSE UpdateJobStatus(jobs, wjob[w].id, "processing", NULL, NULL, -1, now)
    /\ wdbErr' = [wdbErr EXCEPT ![w] = IF fail THEN 1 ELSE @]
    /\ wpc' = [wpc EXCEPT ![w] = "reload"]
    /\ stuckCall' = -1
    /\ UNCHANGED <<dbLock, now, stopEvent, wjob, wres, wloopErr, insertVars, batchVars, taskVars, cacheVars, poolVars, fileVars>>

\* _process_job: config.reload(), before the try block.  When it raises
\* (fail), the exception leaves _process_job and is caught by _run_loop,
\* which logs it and sleeps 5 s.
ConfigReload(w, fail) ==
    /\ wpc[w] = "reload"
    /\ wpc' = [wpc EXCEPT ![w] = IF fail THEN "idle" ELSE "run"]
    /\ wjob' = [wjob EXCEPT ![w] = IF fail THEN NoJob ELSE @]
    /\ wloopErr' = [wloopErr EXCEPT ![w] = IF fail THEN 1 ELSE @]
    /\ stuckCall' = -1
    /\ UNCHANGED <<jobs, dbLock, now, stopEvent, wres, wdbErr, insertVars, batchVars, taskVars, cacheVars, poolVars, fileVars>>

\* What tm.start(task_id, params) can give: None, a dict whose "videos" is
\* a list, or an exception (also one of the parameter reconstruction).
Results ==
    {NoResult, [kind |-> "raise"]} \cup
    {[kind |-> "dict", videos |-> v] :
        v \in {<<>>, <<"v1.mp4">>, <<"v2.mp4", "v1.mp4">>}}

\* _process_job: the try block up to result = tm.start(...)
RunTask(w, R) ==
    /\ wpc[w] = "run"
    /\ \E r \in R : wres' = [wres EXCEPT ![w] = r]
    /\ wpc' = [wpc EXCEPT ![w] = "record"]
    /\ stuckCall' = -1
    /\ UNCHANGED <<jobs, dbLock, now, stopEvent, wjob, wloopErr, wdbErr, insertVars, batchVars, taskVars, cacheVars, poolVars, fileVars>>

\* if result and "videos" in result and result["videos"]
HasVideos(r) == r.kind = "dict" /\ Len(r.videos) > 0

\* result["videos"][-1] in place of result["videos"][0]
OutcomeLastVideo(r) ==
    IF r.kind = "raise"
    THEN [status |-> "failed", error_message |-> "str(e)", output_path |-> NULL]
    ELSE IF HasVideos(r)
    THEN [status |-> "success", error_message |-> NULL,
          output_path |-> r.videos[Len(r.videos)]]
    ELSE [status |-> "failed",
          error_message |-> "No video produced (tm.start returned empty result)",
          output_path |-> NULL]

\* The terminal update_job_status call of _process_job for a result.
Outcome(r) ==
    IF r.kind = "raise"
    THEN [status |-> "failed", error_message |-> "str(e)", output_path |-> NULL]
    ELSE IF HasVideos(r)
    THEN [status |-> "success", error_message |-> NULL, output_path |-> r.videos[1]]
    ELSE [status |-> "failed",
          error_message |-> "No video produced (tm.start returned empty result)",
          output_path |-> NULL]

\* _process_job: db.update_job_status(job_id, 'success' | 'failed', ...,
\* attempts=job.get('attempts', 0) + 1); with fail, the store raises inside
\* update_job_status, whose except logs and returns.
RecordOutcome(w, fail) ==
    /\ wpc[w] = "record"
    /\ DbReady
    /\ LET o == Outcome(wres[w]) IN
       jobs' = IF fail THEN jobs
               ELSE UpdateJobStatus(jobs, wjob[w].id, o.status, o.error_message,
                                    o.output_path, wjob[w].attempts + 1, now)
    /\ wdbErr' = [wdbErr EXCEPT ![w] = IF fail THEN 1 ELSE @]
    /\ wpc' = [wpc EXCEPT ![w] = "duration"]
    /\ stuckCall' = -1
    /\ UNCHANGED <<dbLock, now, stopEvent, wjob, wres, wloopErr, insertVars, batchVars, taskVars, cacheVars, poolVars, fileVars>>

\* _process_job: db.update_job_duration(job_id, elapsed); _process_job
\* returns to _run_loop
RecordDuration(w) ==
    /\ wpc[w] = "duration"
    /\ DbReady
    /\ jobs' = UpdateJobDuration(jobs, wjob[w].id)
    /\ wpc' = [wpc EXCEPT ![w] = "poll"]
    /\ wjob' = [wjob EXCEPT ![w] = NoJob]
    /\ wres' = [wres EXCEPT ![w] = NoResult]
    /\ stuckCall' = -1
    /\ UNCHANGED <<dbLock, now, stopEvent, wloopErr, wdbErr, insertVars, batchVars, taskVars, cacheVars, poolVars, fileVars>>

\* TaskWorker.stop: self._stop_event.set()
Stop ==
    /\ ~stopEvent
    /\ stopEvent' = TRUE
    /\ stuckCall' = -1
    /\ UNCHANGED <<jobs, dbLock, now, workerVars, insertVars, batchVars, taskVars, cacheVars, poolVars, fileVars>>

\* --------------------------------------------------- TaskWorker pool
\* config.app.get("batch_workers", 2)
BatchWorkers == 2

\* num_workers = num_workers or config...; max(1, min(num_workers, 5));
\* None and 0 are both falsy
ClampWorkers(num_workers) ==
    LET n == IF num_workers = 0 THEN BatchWorkers ELSE num_workers
        m == IF n < MaxThreads THEN n ELSE MaxThreads
    IN  IF m > 1 THEN m ELSE 1

\* t.is_alive()
Alive(w) == wpc[w] \notin {"off", "stopped"}

\* a thread inside _process_job
InFlight(w) == wpc[w] \in {"claimed", "reload", "run", "record", "duration"}

\* thread objects not yet created, or of threads that have exited
FreeSlots == {w \in Threads : ~Alive(w)}

\* the k lowest of a set of slots
FirstSlots(S, k) == {w \in S : Cardinality({v \in S : v < w}) < k}

\* alive = [t for t in self._threads if t.is_alive()]; if alive: return
AlreadyRunning == running /\ \E w \in wthreads : Alive(w)

\* TaskWorker.start(num_workers), under self._lock
PoolStart(num_workers) ==
    /\ nstarts < MaxStarts
    /\ nstarts' = nstarts + 1
    /\ Cardinality(FreeSlots) >= ClampWorkers(num_workers)
    /\ IF AlreadyRunning
       THEN UNCHANGED <<running, stopEvent, wthreads, workerVars, fileVars>>
       ELSE LET new == FirstSlots(FreeSlots, ClampWorkers(num_workers)) IN
            /\ running' = TRUE
            /\ stopEvent' = FALSE
            /\ wthreads' = new
            /\ wpc' = [w \in Threads |-> IF w \in new THEN "poll" ELSE wpc[w]]
            /\ UNCHANGED <<wjob, wres, wloopErr, wdbErr, fileVars>>
    /\ stuckCall' = -1
    /\ UNCHANGED <<jobs, dbLock, now, ppc, pjoin, insertVars, batchVars, taskVars, cacheVars, fileVars>>

\* TaskWorker.stop: self._stop_event.set(); for t in self._threads
PoolStop ==
    /\ ppc = "idle"
    /\ stopEvent' = TRUE
    /\ ppc' = "joining"
    /\ pjoin' = wthreads
    /\ stuckCall' = -1
    /\ UNCHANGED <<jobs, dbLock, now, running, wthreads, nstarts, workerVars, insertVars,
                   batchVars, taskVars, cacheVars, fileVars>>

\* TaskWorker.stop: every t.join(timeout=5) has returned, because the
\* thread has exited or, for a thread inside _process_job, on the timeout;
\* self._running = False; self._threads = []
PoolStopReturn ==
    /\ ppc = "joining"
    /\ \A w \in pjoin : ~Alive(w) \/ InFlight(w)
    /\ running' = FALSE
    /\ wthreads' = {}
    /\ ppc' = "idle"
    /\ pjoin' = {}
    /\ stuckCall' = -1
    /\ UNCHANGED <<jobs, dbLock, now, stopEvent, nstarts, workerVars, insertVars,
                   batchVars, taskVars, cacheVars, fileVars>>

InitPool ==
    /\ running = FALSE
    /\ wthreads = {}
    /\ ppc = "idle"
    /\ pjoin = {}
    /\ nstarts = 0

\* ---------------------------------------------------- store operations
\* insert_job / add_job: SELECT id FROM jobs WHERE id = ?; an existing id
\* returns at once
InsertSelect(p, fn, id, topic, category, status, meta, prompt_hash) ==
    /\ ipc[p] = "idle"
    /\ DbReady
    /\ IF HasRow(jobs, id)
       THEN UNCHANGED insertVars
       ELSE /\ ipc' = [ipc EXCEPT ![p] = "insert"]
            /\ iarg' = [iarg EXCEPT ![p] =
                          [fn |-> fn, id |-> id, topic |-> topic, category |-> category,
                           status |-> status, meta |-> meta,
                           prompt_hash |-> IF fn = "add_job" THEN prompt_hash ELSE NULL]]
    /\ stuckCall' = -1
    /\ UNCHANGED <<jobs, dbLock, now, stopEvent, workerVars, batchVars, taskVars, cacheVars, poolVars, fileVars>>

\* insert_job / add_job: INSERT INTO jobs ...; conn.commit()
InsertWrite(p) ==
    /\ ipc[p] = "insert"
    /\ DbReady
    /\ LET a == iarg[p] IN
       jobs' = InsertRow(jobs, a.id,
                   NewRow(a.topic, a.category, a.status, a.meta, a.prompt_hash, now))
    /\ ipc' = [ipc EXCEPT ![p] = "idle"]
    /\ iarg' = [iarg EXCEPT ![p] = NoArg]
    /\ stuckCall' = -1
    /\ UNCHANGED <<dbLock, now, stopEvent, workerVars, batchVars, taskVars, cacheVars, poolVars, fileVars>>

\* reset_job_for_retry(job_id), the Retry buttons of the dashboard
Reset(id) ==
    /\ DbReady
    /\ HasRow(jobs, id)
    /\ jobs' = ResetJobForRetry(jobs, id, now)
    /\ stuckCall' = -1
    /\ UNCHANGED <<dbLock, now, stopEvent, workerVars, insertVars, batchVars, taskVars, cacheVars, poolVars, fileVars>>

\* delete_job(job_id)
Delete(id) ==
    /\ DbReady
    /\ HasRow(jobs, id)
    /\ jobs' = DeleteJob(jobs, id)
    /\ stuckCall' = -1
    /\ UNCHANGED <<dbLock, now, stopEvent, workerVars, insertVars, batchVars, taskVars, cacheVars, poolVars, fileVars>>

\* fail_stuck_jobs(timeout_hours)
FailStuck(timeout) ==
    /\ DbReady
    /\ jobs' = FailStuckJobs(jobs, timeout, now)
    /\ stuckCall' = timeout
    /\ UNCHANGED <<dbLock, now, stopEvent, workerVars, insertVars, batchVars, taskVars, cacheVars, poolVars, fileVars>>

\* The process hosting the worker threads is killed and started again:
\* SQLite rolls back an open transaction, the threads start over.
Crash ==
    /\ \E w \in Threads : wpc[w] \notin {"off", "poll"}
    /\ dbLock' = 0
    /\ wpc' = [w \in Threads |-> IF wpc[w] = "off" THEN "off" ELSE "poll"]
    /\ wjob' = [w \in Threads |-> NoJob]
    /\ wres' = [w \in Threads |-> NoResult]
    /\ stuckCall' = -1
    /\ UNCHANGED <<jobs, now, stopEvent, wloopErr, wdbErr, insertVars, batchVars, taskVars, cacheVars, poolVars, fileVars>>

\* time passes
Tick ==
    /\ now < MaxTime
    /\ now' = now + 1
    /\ stuckCall' = -1
    /\ UNCHANGED <<jobs, dbLock, stopEvent, workerVars, insertVars, batchVars, taskVars, cacheVars, poolVars, fileVars>>

\* ------------------------------------------------- float arithmetic
\* _progress is a Python float (binary64).  The values that occur lie in
\* [2, 128), where every binary64 number is a multiple of 2^-51: a float is
\* held as that multiple, in four limbs of 15 bits, lowest first.
LimbBase == 2^15
FromInt(k) == <<0, 0, 0, 64 * k>>

\* the spacing of binary64 numbers around x, in units of 2^-51
FloatUlp(x) ==
    IF x[4] >= 8192 THEN 64
    ELSE IF x[4] >= 4096 THEN 32
    ELSE IF x[4] >= 2048 THEN 16
    ELSE IF x[4] >= 1024 THEN 8
    ELSE IF x[4] >= 512 THEN 4
    ELSE IF x[4] >= 256 THEN 2
    ELSE 1

FloatSumExact(x, y) ==
    LET s1 == x[1] + y[1]
        s2 == x[2] + y[2] + (s1 \div LimbBase)
        s3 == x[3] + y[3] + (s2 \div LimbBase)
        s4 == x[4] + y[4] + (s3 \div LimbBase)
    IN  <<s1 % LimbBase, s2 % LimbBase, s3 % LimbBase, s4>>

\* round-to-nearest-even of the exact value  x + rem/div  (0 <= rem < div)
FloatRound(x, rem, div) ==
    LET U == FloatUlp(x)
        low == x[1] % U
        twice == 2 * (low * div + rem)
        down == <<x[1] - low, x[2], x[3], x[4]>>
        up == FloatSumExact(down, <<U, 0, 0, 0>>)
    IN  IF twice < U * div THEN down
        ELSE IF twice > U * div THEN up
        ELSE IF (x[1] \div U) % 2 = 0 THEN down
        ELSE up

\* x / n  for a float x and a small int n
FloatDiv(x, n) ==
    LET q4 == x[4] \div n
        c3 == (x[4] % n) * LimbBase + x[3]
        q3 == c3 \div n
        c2 == (c3 % n) * LimbBase + x[2]
        q2 == c2 \div n
        c1 == (c2 % n) * LimbBase + x[1]
        q1 == c1 \div n
    IN  FloatRound(<<q1, q2, q3, q4>>, c1 % n, n)

\* x + y
FloatAdd(x, y) == FloatRound(FloatSumExact(x, y), 0, 1)

\* x < y
FloatLess(x, y) ==
    \/ x[4] < y[4]
    \/ x[4] = y[4] /\ x[3] < y[3]
    \/ x[4] = y[4] /\ x[3] = y[3] /\ x[2] < y[2]
    \/ x[4] = y[4] /\ x[3] = y[3] /\ x[2] = y[2] /\ x[1] < y[1]

\* _progress += 50 / params.video_count / 2
ProgressStep(p, video_count) ==
    FloatAdd(p, FloatDiv(FloatDiv(FromInt(50), video_count), 2))

\* ------------------------------------------------------- Task state
\* app.services.state (sm.state) is outside the sources at hand.  Per the
\* design document a Task holds a state, a progress and the stage outputs,
\* and is mutated by the orchestrator only: update_task writes the fields
\* it is given and keeps the others.
NoProgress == <<>>
NewTask == [state |-> "QUEUED", progress |-> FromInt(0), outputs |-> {}]
UpdateTask(ts, id, state, progress, outputs) ==
    [ts EXCEPT ![id] =
        [state |-> IF state = NULL THEN @.state ELSE state,
         progress |-> IF progress = NoProgress THEN @.progress ELSE progress,
         outputs |-> @.outputs \cup outputs]]

\* --------------------------------------------------- task.start
\* The markers of stop_at, and the files of a task directory: script.json
\* with its "script" and "search_terms" entries, the audio file, the .srt
\* and .ass subtitles, combined-<i>.mp4 and the final videos.
StopMarkers == {"script", "terms", "audio", "materials", "subtitle", "video"}
\* what a caller may pass as stop_at: a marker or any other string
StopAtValues == StopMarkers \cup {"thumbnail"}
NoCall == [id |-> 0]
Loc0 ==
    [video_script |-> "", video_terms |-> "", fut_audio |-> "unset",
     fut_materials |-> "unset", sub_maker |-> FALSE, subtitle_path |-> "",
     i |-> 0, progress |-> FromInt(50), videos |-> <<>>]
RaiseResult == [kind |-> "raise"]
DictResult(keys, videos) == [kind |-> "dict", keys |-> keys, videos |-> videos]

otherVars == <<jobs, dbLock, now, stopEvent, workerVars, insertVars>>

\* if stop_at == marker, read as never true
StopAtIgnored(marker) == FALSE

\* if stop_at == marker
StopAt(marker) == tcall.stop_at = marker

\* future_materials.result() not awaited
MaterialsNotAwaited == TRUE

\* future_materials.result(): blocks until _run_materials has returned
MaterialsReady == mpc = "done"

\* start(task_id, params, stop_at): entry and phase 0a, 0b
StartTask(id, stop_at, video_source, video_count, given, subtitle_enabled, caller) ==
    /\ tpc = "idle"
    /\ tcall' = [id |-> id, stop_at |-> stop_at, video_source |-> video_source,
                 video_count |-> video_count, given |-> given,
                 subtitle_enabled |-> subtitle_enabled, caller |-> caller]
    /\ tloc' = Loc0
    /\ tres' = NoResult
    /\ tpc' = "preflight"
    /\ apc' = "off"
    /\ mpc' = "off"
    /\ invoked' = {}
    /\ stuckCall' = -1
    /\ UNCHANGED <<tasks, disk, otherVars, cacheVars, poolVars, fileVars>>

\* a step inside start that stays in start
Continue(pc, loc, ts, dk, inv) ==
    /\ tpc' = pc
    /\ tloc' = loc
    /\ tasks' = ts
    /\ disk' = dk
    /\ invoked' = inv
    /\ stuckCall' = -1
    /\ UNCHANGED <<tcall, tres, apc, mpc, runs, otherVars, batchVars, cacheVars, poolVars, fileVars>>

\* a step of start that ends with  return  or  return {...}
Return(res, loc, ts, dk, inv) ==
    /\ tpc' = "returned"
    /\ tres' = res
    /\ tloc' = loc
    /\ tasks' = ts
    /\ disk' = dk
    /\ invoked' = inv
    /\ stuckCall' = -1
    /\ UNCHANGED <<tcall, apc, mpc, runs, otherVars, batchVars, cacheVars, poolVars, fileVars>>

\* phase 0c: get_api_key raises ValueError (ok = FALSE) or not; then
\* update_task(state=PROCESSING, progress=5)
Preflight(ok) ==
    /\ tpc = "preflight"
    /\ IF tcall.video_source # "local" /\ ~ok
       THEN Return(NoResult, tloc,
                   UpdateTask(tasks, tcall.id, "FAILED", NoProgress, {}), disk, invoked)
       ELSE Continue("script", tloc,
                     UpdateTask(tasks, tcall.id, "PROCESSING", FromInt(5), {}),
                     disk, invoked)

\* generate_script: script.json, else params.video_script, else
\* llm.generate_script, which gives out
GenerateScript(out) ==
    /\ tpc = "script"
    /\ LET cached == <<"script", 0>> \in disk[tcall.id]
           given == "video_script" \in tcall.given
           script == IF cached \/ given THEN "script" ELSE out
           inv == invoked \cup {"generate_script"} \cup
                  IF cached \/ given THEN {} ELSE {"llm.generate_script"}
       IN  IF script = ""
           THEN Return(NoResult, tloc,
                       UpdateTask(tasks, tcall.id, "FAILED", NoProgress, {}), disk, inv)
           ELSE Continue("stop_script", [tloc EXCEPT !.video_script = script],
                         UpdateTask(tasks, tcall.id, "PROCESSING", FromInt(10), {}),
                         disk, inv)

\* if stop_at == "script": update_task(COMPLETE, 100, script=...); return
StopAfterScript ==
    /\ tpc = "stop_script"
    /\ IF StopAt("script")
       THEN Return(DictResult({"script"}, <<>>), tloc,
                   UpdateTask(tasks, tcall.id, "COMPLETE", FromInt(100), {"script"}),
                   disk, invoked)
       ELSE Continue("terms", tloc, tasks, disk, invoked)

\* generate_terms: skipped for a local source; script.json, else
\* params.video_terms, else llm.generate_terms, which gives out
GenerateTerms(out) ==
    /\ tpc = "terms"
    /\ IF tcall.video_source = "local"
       THEN Continue("save", tloc, tasks, disk, invoked)
       ELSE LET cached == <<"search_terms", 0>> \in disk[tcall.id]
                given == "video_terms" \in tcall.given
                terms == IF cached \/ given THEN "terms" ELSE out
                inv == invoked \cup {"generate_terms"} \cup
                       IF cached \/ given THEN {} ELSE {"llm.generate_terms"}
            IN  IF terms = ""
                THEN Return(NoResult, tloc,
                            UpdateTask(tasks, tcall.id, "FAILED", NoProgress, {}),
                            disk, inv)
                ELSE Continue("scene", [tloc EXCEPT !.video_terms = terms],
                              tasks, disk, inv)

\* llm.generate_scene_terms inside try / except: its outcome is not looked at
GenerateSceneTerms ==
    /\ tpc = "scene"
    /\ Continue("save", tloc, tasks, disk, invoked \cup {"llm.generate_scene_terms"})

\* save_script_data writes script.json anew; then the stop at "terms", or
\* update_task(PROCESSING, 20)
SaveScriptData ==
    /\ tpc = "save"
    /\ LET dk == [disk EXCEPT ![tcall.id] =
                     (@ \ {<<"search_terms", 0>>}) \cup {<<"script", 0>>} \cup
                     IF tloc.video_terms # "" THEN {<<"search_terms", 0>>} ELSE {}]
       IN  IF StopAt("terms")
           THEN Return(DictResult({"script", "terms"}, <<>>), tloc,
                       UpdateTask(tasks, tcall.id, "COMPLETE", FromInt(100), {"terms"}),
                       dk, invoked)
           ELSE Continue("parallel", tloc,
                         UpdateTask(tasks, tcall.id, "PROCESSING", FromInt(20), {}),
                         dk, invoked)

\* if stop_at in ("audio", "subtitle", "materials", "video"):
\* executor.submit(_run_audio); executor.submit(_run_materials) unless the
\* source is local; else: return
Submit ==
    /\ tpc = "parallel"
    /\ IF tcall.stop_at \in {"audio", "subtitle", "materials", "video"}
       THEN /\ tpc' = "wait_audio"
            /\ apc' = "running"
            /\ mpc' = IF tcall.video_source # "local" THEN "running" ELSE "off"
            /\ stuckCall' = -1
            /\ UNCHANGED <<tasks, disk, tcall, tloc, tres, invoked, runs, otherVars, batchVars, cacheVars, poolVars, fileVars>>
       ELSE Return(NoResult, tloc, tasks, disk, invoked)

\* _run_audio in its pool thread: generate_audio re-uses the audio file or
\* calls voice.tts, which gives out
GenerateAudio(out) ==
    /\ apc = "running"
    /\ apc' = "done"
    /\ LET exists == <<"audio", 0>> \in disk[tcall.id]
           res == IF exists THEN "ok" ELSE out
       IN  /\ tloc' = [tloc EXCEPT !.fut_audio = res,
                                   !.sub_maker = ~exists /\ out = "ok"]
           /\ invoked' = invoked \cup {"generate_audio"} \cup
                         IF exists THEN {} ELSE {"voice.tts"}
           /\ disk' = IF res = "ok"
                      THEN [disk EXCEPT ![tcall.id] = @ \cup {<<"audio", 0>>}]
                      ELSE disk
           /\ tasks' = IF res = "ok" THEN tasks
                       ELSE UpdateTask(tasks, tcall.id, "FAILED", NoProgress, {})
    /\ stuckCall' = -1
    /\ UNCHANGED <<tpc, tcall, tres, mpc, runs, otherVars, batchVars, cacheVars, poolVars, fileVars>>

\* _run_materials in its pool thread: get_video_materials with the
\* estimated duration; material.download_videos gives out
GetVideoMaterials(out) ==
    /\ mpc = "running"
    /\ mpc' = "done"
    /\ tloc' = [tloc EXCEPT !.fut_materials = out]
    /\ invoked' = invoked \cup {"get_video_materials", "material.download_videos"}
    /\ tasks' = IF out # "" THEN tasks
                ELSE UpdateTask(tasks, tcall.id, "FAILED", NoProgress, {})
    /\ stuckCall' = -1
    /\ UNCHANGED <<disk, tpc, tcall, tres, apc, runs, otherVars, batchVars, cacheVars, poolVars, fileVars>>

\* future_audio.result(); if not audio_file: FAILED, return (the with
\* block then joins the pool)
CollectAudio ==
    /\ tpc = "wait_audio"
    /\ apc = "done"
    /\ IF tloc.fut_audio # "ok"
       THEN Continue("join", tloc,
                     UpdateTask(tasks, tcall.id, "FAILED", NoProgress, {}), disk, invoked)
       ELSE Continue(IF tcall.video_source = "local" THEN "local_materials"
                     ELSE "wait_materials", tloc, tasks, disk, invoked)

\* leaving  with ThreadPoolExecutor  on the return: shutdown(wait=True)
Join ==
    /\ tpc = "join"
    /\ mpc \in {"off", "done"}
    /\ Return(NoResult, tloc, tasks, disk, invoked)

\* the materials as collected, without the check for an empty list
MaterialsUnchecked(loc, ts, inv) ==
    Continue("stop_parallel", loc,
             UpdateTask(ts, tcall.id, "PROCESSING", FromInt(40), {}), disk, inv)

\* the materials as collected; if not downloaded_videos: FAILED, return;
\* else update_task(PROCESSING, 40)
CheckMaterials(loc, ts, inv) ==
    IF loc.fut_materials \in {"", "unset"}
    THEN Return(NoResult, loc,
                UpdateTask(ts, tcall.id, "FAILED", NoProgress, {}), disk, inv)
    ELSE Continue("stop_parallel", loc,
                  UpdateTask(ts, tcall.id, "PROCESSING", FromInt(40), {}), disk, inv)

\* downloaded_videos = future_materials.result()
CollectMaterials ==
    /\ tpc = "wait_materials"
    /\ MaterialsReady
    /\ CheckMaterials(tloc, tasks, invoked)

\* local source: get_video_materials in the calling thread, after the audio
LocalMaterials(out) ==
    /\ tpc = "local_materials"
    /\ CheckMaterials([tloc EXCEPT !.fut_materials = out],
                      IF out # "" THEN tasks
                      ELSE UpdateTask(tasks, tcall.id, "FAILED", NoProgress, {}),
                      invoked \cup {"get_video_materials", "video.preprocess_video"})

\* if stop_at == "audio" / "materials": update_task(COMPLETE, 100, ...); return
StopAfterParallel ==
    /\ tpc = "stop_parallel"
    /\ IF StopAt("audio")
       THEN Return(DictResult({"audio_file", "audio_duration"}, <<>>), tloc,
                   UpdateTask(tasks, tcall.id, "COMPLETE", FromInt(100), {"audio_file"}),
                   disk, invoked)
       ELSE IF StopAt("materials")
       THEN Return(DictResult({"materials"}, <<>>), tloc,
                   UpdateTask(tasks, tcall.id, "COMPLETE", FromInt(100), {"materials"}),
                   disk, invoked)
       ELSE Continue("subtitle", tloc, tasks, disk, invoked)

\* generate_subtitle: "" when disabled; the existing .srt and .ass; "" when
\* there is no sub_maker; else the provider, which leaves both files
\* ("both"), the .srt alone ("srt") or no valid .srt ("").  Then the stop
\* at "subtitle", or update_task(PROCESSING, 50)
GenerateSubtitle(out) ==
    /\ tpc = "subtitle"
    /\ LET exists == {<<"srt", 0>>, <<"ass", 0>>} \subseteq disk[tcall.id]
           made == tcall.subtitle_enabled /\ ~exists /\ tloc.sub_maker
           path == IF ~tcall.subtitle_enabled THEN ""
                   ELSE IF exists THEN "subtitle_path"
                   ELSE IF ~tloc.sub_maker THEN ""
                   ELSE IF out = "" THEN "" ELSE "subtitle_path"
           dk == IF made /\ out # ""
                 THEN [disk EXCEPT ![tcall.id] = @ \cup {<<"srt", 0>>} \cup
                          IF out = "both" THEN {<<"ass", 0>>} ELSE {}]
                 ELSE disk
           inv == invoked \cup {"generate_subtitle"} \cup
                  IF made THEN {"voice.create_subtitle"} ELSE {}
           loc == [tloc EXCEPT !.subtitle_path = path, !.i = 1]
       IN  IF StopAt("subtitle")
           THEN Return(DictResult({"subtitle_path"}, <<>>), loc,
                       UpdateTask(tasks, tcall.id, "COMPLETE", FromInt(100),
                                  {"subtitle_path"}), dk, inv)
           ELSE Continue(IF tcall.video_count > 0 THEN "combine" ELSE "finish", loc,
                         UpdateTask(tasks, tcall.id, "PROCESSING", FromInt(50), {}),
                         dk, inv)

\* generate_final_videos, video i: combine_videos unless combined-<i>.mp4
\* exists; _progress += 50 / video_count / 2; update_task(progress=_progress)
CombineVideos ==
    /\ tpc = "combine"
    /\ LET file == <<"combined", tloc.i>>
           exists == file \in disk[tcall.id]
           p == ProgressStep(tloc.progress, tcall.video_count)
       IN  Continue("generate", [tloc EXCEPT !.progress = p],
                    UpdateTask(tasks, tcall.id, NULL, p, {}),
                    [disk EXCEPT ![tcall.id] = @ \cup {file}],
                    invoked \cup {"generate_final_videos"} \cup
                    IF exists THEN {} ELSE {"video.combine_videos"})

\* the name of final video i: <safe_name>_<i>.mp4, or <safe_name>.mp4 when
\* video_count is 1
FinalVideo(i, video_count) == <<"final", IF video_count > 1 THEN i ELSE 0>>

\* generate_final_videos, video i: generate_video unless the final video
\* exists (wrote: it left the file); the second progress update; next i
GenerateVideo(wrote) ==
    /\ tpc = "generate"
    /\ LET file == FinalVideo(tloc.i, tcall.video_count)
           exists == file \in disk[tcall.id]
           p == ProgressStep(tloc.progress, tcall.video_count)
           loc == [tloc EXCEPT !.progress = p, !.i = @ + 1,
                               !.videos = Append(@, file)]
       IN  Continue(IF tloc.i < tcall.video_count THEN "combine" ELSE "finish", loc,
                    UpdateTask(tasks, tcall.id, NULL, p, {}),
                    IF exists \/ ~wrote THEN disk
                    ELSE [disk EXCEPT ![tcall.id] = @ \cup {file}],
                    invoked \cup IF exists THEN {} ELSE {"video.generate_video"})

\* if not final_video_paths: FAILED, return (no pass of the loop of
\* generate_final_videos); else update_task(COMPLETE, 100, **kwargs);
\* return kwargs
Finish ==
    /\ tpc = "finish"
    /\ LET keys == {"videos", "combined_videos", "script", "terms", "audio_file",
                    "audio_duration", "subtitle_path", "materials"}
           inv == invoked \cup {"generate_final_videos"}
       IN  IF tloc.videos = <<>>
           THEN Return(NoResult, tloc,
                       UpdateTask(tasks, tcall.id, "FAILED", NoProgress, {}), disk, inv)
           ELSE Return(DictResult(keys, tloc.videos), tloc,
                       UpdateTask(tasks, tcall.id, "COMPLETE", FromInt(100), keys),
                       disk, inv)

\* a collaborator called by the thread of start raises: the exception
\* leaves start
Raise ==
    /\ tpc \in {"script", "terms", "combine", "generate"}
    /\ Return(RaiseResult, tloc, tasks, disk, invoked)

\* One step of a call of start with a source other than local; the
\* collaborators give any outcome.
RemoteTaskStep ==
    \/ \E ok \in BOOLEAN : Preflight(ok)
    \/ \E out \in {"", "script"} : GenerateScript(out)
    \/ StopAfterScript
    \/ \E out \in {"", "terms"} : GenerateTerms(out)
    \/ GenerateSceneTerms
    \/ SaveScriptData
    \/ Submit
    \/ \E out \in {"none", "ok"} : GenerateAudio(out)
    \/ \E out \in {"", "videos"} : GetVideoMaterials(out)
    \/ CollectAudio
    \/ Join
    \/ CollectMaterials
    \/ StopAfterParallel
    \/ \E out \in {"", "srt", "both"} : GenerateSubtitle(out)
    \/ CombineVideos
    \/ \E wrote \in BOOLEAN : GenerateVideo(wrote)
    \/ Finish

\* One step of a call of start.
TaskStep ==
    \/ RemoteTaskStep
    \/ \E out \in {"", "videos"} : LocalMaterials(out)

\* A caller other than the batch runner and the worker calls start, and
\* gets its result.
DirectCall(id, stop_at, video_source, video_count, given, subtitle_enabled) ==
    /\ runs < MaxRuns
    /\ runs' = runs + 1
    /\ StartTask(id, stop_at, video_source, video_count, given, subtitle_enabled, "api")
    /\ UNCHANGED batchVars

DirectReturn ==
    /\ tpc = "returned"
    /\ tcall.caller = "api"
    /\ tpc' = "idle"
    /\ stuckCall' = -1
    /\ UNCHANGED <<tasks, disk, tcall, tloc, tres, apc, mpc, invoked, runs,
                   otherVars, batchVars, cacheVars, poolVars, fileVars>>

InitTask ==
    /\ tasks = [id \in JobIds |-> NewTask]
    /\ disk = [id \in JobIds |-> {}]
    /\ tpc = "idle"
    /\ tcall = NoCall
    /\ tloc = Loc0
    /\ tres = NoResult
    /\ apc = "off"
    /\ mpc = "off"
    /\ invoked = {}
    /\ runs = 0

\* ------------------------------------------------ files of a Task run
\* utils.task_dir(task_id) and utils.storage_dir(sub_dir)
TaskDir(id) == <<"storage", "tasks", id>>
StorageDir(sub_dir) == <<"storage", sub_dir>>

\* re.sub(r'[\\/*?:"<>|]', "", search_term).strip().replace(" ", "_"),
\* on a term held as the sequence of its characters
ForbiddenChars == {"\\", "/", "*", "?", ":", "\"", "<", ">", "|"}
RECURSIVE Strip(_)
Strip(t) ==
    IF t = <<>> THEN t
    ELSE IF Head(t) = " " THEN Strip(Tail(t))
    ELSE IF t[Len(t)] = " " THEN Strip(SubSeq(t, 1, Len(t) - 1))
    ELSE t
KeptChar(c) == c \notin ForbiddenChars
SafeTerm(search_term) ==
    LET t == Strip(SelectSeq(search_term, KeptChar))
    IN  [i \in 1..Len(t) |-> IF t[i] = " " THEN "_" ELSE t[i]]

\* download_videos: material_directory as configured; "task" and a
\* directory that does not exist fall back
MaterialDirectory(configured) ==
    IF configured = "task" THEN StorageDir("cache_videos")
    ELSE IF configured = "missing" THEN <<>>
    ELSE IF configured = "" THEN <<>>
    ELSE <<configured>>

\* save_video: save_dir / safe_term / vid-md5(url without query).mp4
VideoPath(save_dir, search_term, video_url) ==
    LET dir == IF save_dir = <<>> THEN StorageDir("cache_videos") ELSE save_dir
        term_dir == IF search_term = <<>> THEN dir ELSE Append(dir, SafeTerm(search_term))
    IN  Append(term_dir, <<"vid", "md5", video_url.base, "mp4">>)

\* the material file of the run of Task id
MaterialFile(id) ==
    VideoPath(MaterialDirectory(dreq[id].material_directory), dreq[id].term, dreq[id].url)

\* generate_audio: task_dir / Category_Subject.mp3
AudioFile(id) == Append(TaskDir(id), "audio.mp3")
\* generate_final_videos: task_dir / combined-1.mp4
CombinedFile(id) == Append(TaskDir(id), "combined-1.mp4")

NoReq == [term |-> <<>>]

\* what the file accesses of a run leave alone
FileFrame ==
    /\ stuckCall' = -1
    /\ UNCHANGED <<otherVars, batchVars, taskVars, cacheVars, poolVars>>

\* tm.start(task_id, params) is called for Task id
FileStart(id, term, url, material_directory) ==
    /\ dpc[id] = "idle"
    /\ dreq' = [dreq EXCEPT ![id] = [term |-> term, url |-> url,
                                     material_directory |-> material_directory]]
    /\ dpc' = [dpc EXCEPT ![id] = "audio"]
    /\ UNCHANGED <<dacc, fsfiles>>
    /\ FileFrame

\* generate_audio: voice.tts opens and writes the audio file
AudioOpen(id) ==
    /\ dpc[id] = "audio"
    /\ dacc' = [dacc EXCEPT ![id] = {<<"w", AudioFile(id)>>}]
    /\ fsfiles' = fsfiles \cup {AudioFile(id)}
    /\ dpc' = [dpc EXCEPT ![id] = "audio_close"]
    /\ UNCHANGED dreq
    /\ FileFrame

AudioClose(id) ==
    /\ dpc[id] = "audio_close"
    /\ dacc' = [dacc EXCEPT ![id] = {}]
    /\ dpc' = [dpc EXCEPT ![id] = "save_video"]
    /\ UNCHANGED <<dreq, fsfiles>>
    /\ FileFrame

\* save_video: an existing file of size > 0 is returned as it is, else
\* open(video_path, "wb") creates or truncates it
SaveVideoOpen(id) ==
    /\ dpc[id] = "save_video"
    /\ IF MaterialFile(id) \in fsfiles
       THEN /\ dpc' = [dpc EXCEPT ![id] = "combine"]
            /\ UNCHANGED <<dacc, fsfiles>>
       ELSE /\ dpc' = [dpc EXCEPT ![id] = "write"]
            /\ dacc' = [dacc EXCEPT ![id] = {<<"w", MaterialFile(id)>>}]
            /\ fsfiles' = fsfiles
    /\ UNCHANGED dreq
    /\ FileFrame

\* save_video: f.write(...) has written part of the content
SaveVideoWrite(id) ==
    /\ dpc[id] = "write"
    /\ fsfiles' = fsfiles \cup {MaterialFile(id)}
    /\ dpc' = [dpc EXCEPT ![id] = "close"]
    /\ UNCHANGED <<dreq, dacc>>
    /\ FileFrame

\* save_video: the with block closes the file; VideoFileClip(video_path)
SaveVideoClose(id) ==
    /\ dpc[id] = "close"
    /\ dacc' = [dacc EXCEPT ![id] = {<<"r", MaterialFile(id)>>}]
    /\ dpc' = [dpc EXCEPT ![id] = "combine"]
    /\ UNCHANGED <<dreq, fsfiles>>
    /\ FileFrame

\* generate_final_videos: combine_videos reads the material and writes
\* combined-1.mp4
CombineOpen(id) ==
    /\ dpc[id] = "combine"
    /\ dacc' = [dacc EXCEPT ![id] = {<<"r", MaterialFile(id)>>, <<"w", CombinedFile(id)>>}]
    /\ fsfiles' = fsfiles \cup {CombinedFile(id)}
    /\ dpc' = [dpc EXCEPT ![id] = "combine_close"]
    /\ UNCHANGED dreq
    /\ FileFrame

\* the run is over
CombineClose(id) ==
    /\ dpc[id] = "combine_close"
    /\ dacc' = [dacc EXCEPT ![id] = {}]
    /\ dpc' = [dpc EXCEPT ![id] = "done"]
    /\ UNCHANGED <<dreq, fsfiles>>
    /\ FileFrame

\* cleanup.cleanup_task(task_id) after the run
FileCleanup(id) ==
    /\ dpc[id] = "done"
    /\ fsfiles' = {f \in fsfiles : SubSeq(f, 1, 3) # TaskDir(id)}
    /\ dpc' = [dpc EXCEPT ![id] = "cleaned"]
    /\ UNCHANGED <<dreq, dacc>>
    /\ FileFrame

FileStep(id) ==
    \/ AudioOpen(id)
    \/ AudioClose(id)
    \/ SaveVideoOpen(id)
    \/ SaveVideoWrite(id)
    \/ SaveVideoClose(id)
    \/ CombineOpen(id)
    \/ CombineClose(id)
    \/ FileCleanup(id)
    \/ \E term \in SearchTerms, url \in VideoUrls,
          material_directory \in {"", "task", "missing", "/materials"} :
          FileStart(id, term, url, material_directory)

InitFiles ==
    /\ dpc = [id \in JobIds |-> "idle"]
    /\ dreq = [id \in JobIds |-> NoReq]
    /\ dacc = [id \in JobIds |-> {}]
    /\ fsfiles = {}

\* --------------------------------------------------- llm_cache
\* A Python value is held as <<type, text>>; json.dumps writes a str in
\* quotes and an int as its digits.
PyStr(text) == <<"str", text>>
PyInt(text) == <<"int", text>>
JsonDumps(v) == IF v[1] = "str" THEN "\"" \o v[2] \o "\"" ELSE v[2]

\* the order of the keys that occur, as sort_keys compares them
KeyRank(name) == IF name = "a" THEN 1 ELSE IF name = "b" THEN 2 ELSE 3

\* {"type": prompt_type, **kwargs}: the items of the dict in insertion
\* order; a keyword that is already a key replaces the value in place
RECURSIVE DictUpdate(_, _)
DictUpdate(items, kwargs) ==
    IF kwargs = <<>> THEN items
    ELSE LET kw == Head(kwargs)
             at == {i \in 1..Len(items) : items[i][1] = kw[1]}
         IN  DictUpdate(IF at = {} THEN Append(items, kw)
                        ELSE [i \in 1..Len(items) |-> IF i \in at THEN kw ELSE items[i]],
                        Tail(kwargs))

\* json.dumps(..., sort_keys=True): the items sorted by key
RECURSIVE SortKeys(_)
SortKeys(items) ==
    IF items = <<>> THEN <<>>
    ELSE LET least == CHOOSE i \in 1..Len(items) :
                          \A j \in 1..Len(items) : KeyRank(items[i][1]) <= KeyRank(items[j][1])
             rest == [j \in 1..(Len(items) - 1) |->
                         IF j < least THEN items[j] ELSE items[j + 1]]
         IN  <<items[least]>> \o SortKeys(rest)

\* _make_key: the serialized payload; sha256 is taken as injective
MakeKey(prompt_type, kwargs) ==
    LET items == SortKeys(DictUpdate(<<<<"type", PyStr(prompt_type)>>>>, kwargs))
    IN  [i \in 1..Len(items) |-> <<items[i][1], JsonDumps(items[i][2])>>]

\* json.dumps raises TypeError on a value that is neither of these
Serializable(v) == v[1] \in {"str", "int"}

\* _make_key returns, rather than raises, for these arguments
CanMakeKey(prompt_type, kwargs) ==
    LET items == DictUpdate(<<<<"type", PyStr(prompt_type)>>>>, kwargs)
    IN  \A i \in 1..Len(items) : Serializable(items[i][2])

\* int(time.time())
IntTime(t) == t \div TicksPerSecond

NoGet == [value |-> "unset"]

\* get: the row of the key, if any, when  time.time() - created_at  is
\* below _CACHE_TTL_SECONDS; else None
CacheLookup(rows, prompt_type, kwargs, t) ==
    LET hit == {r \in rows : r.cache_key = MakeKey(prompt_type, kwargs)}
        fresh == {r \in hit : t - r.created_at * TicksPerSecond
                                  < CacheTtlSeconds * TicksPerSecond}
    IN  IF fresh = {} THEN "None" ELSE (CHOOSE r \in fresh : TRUE).response

\* INSERT OR REPLACE INTO llm_cache VALUES (key, response, int(time.time()))
CacheStore(rows, prompt_type, response, kwargs, t) ==
    {r \in rows : r.cache_key # MakeKey(prompt_type, kwargs)} \cup
    {[cache_key |-> MakeKey(prompt_type, kwargs), response |-> response,
      created_at |-> IntTime(t)]}

\* DELETE FROM llm_cache WHERE created_at < cutoff, with
\* cutoff = int(time.time()) - _CACHE_TTL_SECONDS: the rows deleted
CacheExpiredRows(rows, t) ==
    {r \in rows : r.created_at < IntTime(t) - CacheTtlSeconds}

\* the parameters of a call as a set of name / value pairs
ParamSet(kwargs) == {kwargs[i] : i \in 1..Len(kwargs)}

\* llm_cache.get(prompt_type, **kwargs): _make_key runs before the try;
\* an exception of the store inside it gives None
CacheGet(prompt_type, kwargs) ==
    /\ cret = NoGet
    /\ cret' = [op |-> "get", prompt_type |-> prompt_type, kwargs |-> kwargs,
                raised |-> ~CanMakeKey(prompt_type, kwargs),
                value |-> IF ~CanMakeKey(prompt_type, kwargs) THEN "TypeError"
                          ELSE IF cdown THEN "None"
                          ELSE CacheLookup(cache, prompt_type, kwargs, cnow)]
    /\ stuckCall' = -1
    /\ UNCHANGED <<cache, cnow, chist, nsets, cdown, otherVars, batchVars, taskVars, poolVars, fileVars>>

\* the caller of get, set or clear_expired goes on
CacheGetReturn ==
    /\ cret # NoGet
    /\ cret' = NoGet
    /\ stuckCall' = -1
    /\ UNCHANGED <<cache, cnow, chist, nsets, cdown, otherVars, batchVars, taskVars, poolVars, fileVars>>

\* llm_cache.set(prompt_type, response, **kwargs): _make_key runs before
\* the try; an exception of the store inside it is logged only
CacheSet(prompt_type, response, kwargs) ==
    /\ cret = NoGet
    /\ nsets < MaxSets
    /\ nsets' = nsets + 1
    /\ cret' = [op |-> "set", prompt_type |-> prompt_type, kwargs |-> kwargs,
                raised |-> ~CanMakeKey(prompt_type, kwargs),
                value |-> IF ~CanMakeKey(prompt_type, kwargs) THEN "TypeError" ELSE "None"]
    /\ IF CanMakeKey(prompt_type, kwargs) /\ ~cdown
       THEN /\ cache' = CacheStore(cache, prompt_type, response, kwargs, cnow)
            /\ chist' = {h \in chist : ~(h.prompt_type = prompt_type
                                         /\ h.params = ParamSet(kwargs))}
                        \cup {[prompt_type |-> prompt_type, params |-> ParamSet(kwargs),
                               response |-> response, at |-> cnow]}
       ELSE UNCHANGED <<cache, chist, poolVars, fileVars>>
    /\ stuckCall' = -1
    /\ UNCHANGED <<cnow, cdown, otherVars, batchVars, taskVars, poolVars, fileVars>>

\* llm_cache.clear_expired(): returns the rowcount of the DELETE, or 0 on
\* an exception of the store
CacheClearExpired ==
    /\ cret = NoGet
    /\ cret' = [op |-> "clear_expired", raised |-> FALSE,
                deleted |-> IF cdown THEN 0
                            ELSE Cardinality(CacheExpiredRows(cache, cnow))]
    /\ cache' = IF cdown THEN cache ELSE cache \ CacheExpiredRows(cache, cnow)
    /\ stuckCall' = -1
    /\ UNCHANGED <<cnow, chist, nsets, cdown, otherVars, batchVars, taskVars, poolVars, fileVars>>

\* the store becomes unavailable (sqlite3 raises) or available again
CacheStoreFlip ==
    /\ cret = NoGet
    /\ cdown' = ~cdown
    /\ stuckCall' = -1
    /\ UNCHANGED <<cache, cnow, cret, chist, nsets, otherVars, batchVars, taskVars, poolVars, fileVars>>

\* time passes
CacheTick ==
    /\ cret = NoGet
    /\ cnow < MaxCacheTicks
    /\ cnow' = cnow + 1
    /\ stuckCall' = -1
    /\ UNCHANGED <<cache, cret, chist, nsets, cdown, otherVars, batchVars, taskVars, poolVars, fileVars>>

InitCache ==
    /\ cache = {}
    /\ cnow = 0
    /\ cret = NoGet
    /\ chist = {}
    /\ nsets = 0
    /\ cdown = FALSE

\* The calls made of the cache: two kinds, parameters in both orders, and
\* a parameter whose name is "type".
PromptTypes == {"script", "terms"}
KwargLists ==
    {<<>>, <<<<"a", PyInt("1")>>>>, <<<<"a", PyInt("2")>>>>,
     <<<<"a", PyInt("1")>>, <<"b", PyInt("2")>>>>,
     <<<<"b", PyInt("2")>>, <<"a", PyInt("1")>>>>,
     <<<<"type", PyStr("terms")>>>>}
\* parameters with a value that json.dumps cannot serialize
BadKwargLists == {<<<<"a", <<"set", "{1}">>>>>>}

\* ----------------------------------------------------------- run_batch
\* run_batch: max_retries = 3, retry_delays = [60, 120, 300]
MaxRetries == 3
RetryDelays == <<60, 120, 300>>

\* get_job_by_topic: SELECT * FROM jobs WHERE topic = ? ORDER BY created_at
\* DESC LIMIT 1 : the candidates
LatestByTopic(js, topic) ==
    LET S == {id \in JobIds : HasRow(js, id) /\ js[id].topic = topic}
    IN  {id \in S : \A o \in S : ~TextLess(js[id].created_at, js[o].created_at)}

\* run_batch, lines 91-121: what the loop does with the topic, given the
\* row of get_job_by_topic (0: none) and whether its output file exists
TopicDecision(js, existing, mode, fileExists) ==
    IF mode = "resume"
    THEN IF existing = 0 THEN "skip"
         ELSE IF js[existing].status = "success" /\ js[existing].output_path # NULL
                 /\ fileExists THEN "skip"
         ELSE IF js[existing].status \in {"failed", "processing"} THEN "delete"
         ELSE "skip"
    ELSE IF mode = "normal"
    THEN IF existing # 0 /\ js[existing].status = "success"
            /\ js[existing].output_path # NULL /\ fileExists
         THEN "skip" ELSE "insert"
    ELSE "insert"

BatchGoto(pc, topic, existing, id, attempt, delay) ==
    /\ bpc' = pc
    /\ btopic' = topic
    /\ bexisting' = existing
    /\ bid' = id
    /\ battempt' = attempt
    /\ bdelay' = delay

BatchIdle == BatchGoto("idle", "", 0, 0, 0, 0)

\* run_batch: the next topic of the file: existing_job =
\* db.get_job_by_topic(clean_subject) and the resume / duplicate branches
BatchLookup(topic, mode, fileExists) ==
    /\ bpc = "idle"
    /\ DbReady
    /\ \E existing \in (IF LatestByTopic(jobs, topic) = {} THEN {0}
                        ELSE LatestByTopic(jobs, topic)) :
          LET d == TopicDecision(jobs, existing, mode, fileExists) IN
          IF d = "skip" THEN BatchIdle
          ELSE BatchGoto(d, topic, existing, 0, 0, 0)
    /\ stuckCall' = -1
    /\ UNCHANGED <<jobs, dbLock, now, stopEvent, workerVars, insertVars, taskVars, cacheVars, poolVars, fileVars>>

\* run_batch: db.delete_job(existing_job['id'])
BatchDelete ==
    /\ bpc = "delete"
    /\ DbReady
    /\ jobs' = DeleteJob(jobs, bexisting)
    /\ BatchGoto("insert", btopic, 0, 0, 0, 0)
    /\ stuckCall' = -1
    /\ UNCHANGED <<dbLock, now, stopEvent, workerVars, insertVars, taskVars, cacheVars, poolVars, fileVars>>

\* run_batch: db.insert_job(task_id, clean_subject, category,
\* status="processing") with task_id a fresh uuid4
BatchInsert(id) ==
    /\ bpc = "insert"
    /\ DbReady
    /\ ~HasRow(jobs, id)
    /\ \A w \in Threads : wjob[w].id # id
    /\ jobs' = InsertRow(jobs, id,
                   NewRow(btopic, "General", "processing", "None", NULL, now))
    /\ BatchGoto("check", btopic, 0, id, 0, 0)
    /\ stuckCall' = -1
    /\ UNCHANGED <<dbLock, now, stopEvent, workerVars, insertVars, taskVars, cacheVars, poolVars, fileVars>>

\* run_batch: if os.path.exists(final_output_path): ... continue
BatchFileCheck(fileExists) ==
    /\ bpc = "check"
    /\ IF fileExists THEN BatchIdle
       ELSE BatchGoto("attempt", btopic, 0, bid, 1, 0)
    /\ stuckCall' = -1
    /\ UNCHANGED <<jobs, dbLock, now, stopEvent, workerVars, insertVars, taskVars, cacheVars, poolVars, fileVars>>

\* What one attempt of the retry loop gives: tm.start returned a dict with
\* "videos" whose first file exists ("video") or does not ("nofile"),
\* returned None ("none"), or raised ("raise")
AttemptResults == {"video", "nofile", "none", "raise"}

\* failed is written after every attempt that gives no video
BatchRecordEachFailure(js, id, r, attempt, t) ==
    IF r = "video"
    THEN UpdateJobStatus(js, id, "success", NULL, "final_output_path", attempt, t)
    ELSE IF r = "nofile" THEN js
    ELSE UpdateJobStatus(js, id, "failed", "Max attempts reached", NULL, attempt, t)

\* The update_job_status call of run_batch after an attempt, if any
BatchRecord(js, id, r, attempt, t) ==
    IF r = "video"
    THEN UpdateJobStatus(js, id, "success", NULL, "final_output_path", attempt, t)
    ELSE IF r = "nofile" THEN js
    ELSE IF attempt = MaxRetries
    THEN UpdateJobStatus(js, id, "failed",
             IF r = "none" THEN "Max attempts reached" ELSE "str(e)", NULL, attempt, t)
    ELSE js

\* cleanup_task: shutil.rmtree(task_dir)
CleanupTask(dk, id) == [dk EXCEPT ![id] = {}]

\* run_batch: one pass of  for attempt in range(1, max_retries + 1)  from
\* the return of tm.start up to the break, the sleep or the end of the loop
BatchAttemptCore(r) ==
    /\ bpc = "attempt"
    /\ DbReady
    /\ jobs' = BatchRecord(jobs, bid, r, battempt, now)
    /\ disk' = CleanupTask(disk, bid)
    /\ IF r \in {"video", "nofile"} \/ battempt = MaxRetries
       THEN BatchIdle
       ELSE BatchGoto("sleep", btopic, 0, bid, battempt, RetryDelays[battempt])
    /\ stuckCall' = -1
    /\ UNCHANGED <<dbLock, now, stopEvent, workerVars, insertVars, cacheVars, poolVars, fileVars>>

\* the same with tm.start taken as one step that gives r
BatchAttempt(r) ==
    /\ tpc = "idle"
    /\ BatchAttemptCore(r)
    /\ UNCHANGED runVars

\* run_batch: result = tm.start(task_id, params)
BatchCall(given) ==
    /\ bpc = "attempt"
    /\ StartTask(bid, "video", "pexels", 1, given, TRUE, "batch")
    /\ UNCHANGED <<runs, batchVars, cacheVars, poolVars, fileVars>>

\* if result and "videos" in result: ... os.path.exists(output_file)
AttemptKind(r, files) ==
    IF r.kind = "raise" THEN "raise"
    ELSE IF r.kind = "dict" /\ "videos" \in r.keys
    THEN IF r.videos[1] \in files THEN "video" ELSE "nofile"
    ELSE "none"

\* run_batch: tm.start has returned or raised
BatchReturn ==
    /\ tpc = "returned"
    /\ tcall.caller = "batch"
    /\ BatchAttemptCore(AttemptKind(tres, disk[bid]))
    /\ tpc' = "idle"
    /\ UNCHANGED <<tasks, tcall, tloc, tres, apc, mpc, invoked, runs, cacheVars, poolVars, fileVars>>

\* run_batch: time.sleep(delay) is over, the next attempt starts
BatchSleep ==
    /\ bpc = "sleep"
    /\ BatchGoto("attempt", btopic, 0, bid, battempt + 1, bdelay)
    /\ stuckCall' = -1
    /\ UNCHANGED <<jobs, dbLock, now, stopEvent, workerVars, insertVars, taskVars, cacheVars, poolVars, fileVars>>

InitBatch ==
    /\ bpc = "idle"
    /\ btopic = ""
    /\ bexisting = 0
    /\ bid = 0
    /\ battempt = 0
    /\ bdelay = 0

\* ------------------------------------------------------ specifications
InitWorkers(live, pc) ==
    /\ wpc = [w \in Threads |-> IF w \in live THEN pc ELSE "off"]
    /\ wjob = [w \in Threads |-> NoJob]
    /\ wres = [w \in Threads |-> NoResult]
    /\ wloopErr = [w \in Threads |-> 0]
    /\ wdbErr = [w \in Threads |-> 0]

InitInserters ==
    /\ ipc = [p \in Inserters |-> "idle"]
    /\ iarg = [p \in Inserters |-> NoArg]

\* Nobody is inside insert_job, run_batch has not started a topic.
InitRest == InitInserters /\ InitBatch /\ InitTask /\ InitCache /\ InitPool /\ InitFiles

\* The store as init_db leaves it, and NumWorkers threads started.
Init ==
    /\ jobs = [id \in JobIds |-> NoRow]
    /\ dbLock = 0
    /\ now = 0
    /\ stopEvent = FALSE
    /\ stuckCall = -1
    /\ InitWorkers(Workers, "poll")
    /\ InitRest

WorkerStep(w) ==
    \/ LoopCheck(w)
    \/ ClaimBegin(w)
    \/ ClaimSelect(w)
    \/ ClaimCommit(w)
    \/ Wake(w)
    \/ ProcessStart(w, FALSE)
    \/ ConfigReload(w, FALSE)
    \/ RunTask(w, Results)
    \/ RecordOutcome(w, FALSE)
    \/ RecordDuration(w)

\* A job enqueued with the defaults of insert_job (status pending).
Enqueue ==
    \/ \E id \in JobIds :
          InsertSelect(1, "insert_job", id, "Ocean Facts", "General", "pending", "None", NULL)
    \/ InsertWrite(1)

\* The buttons of the dashboard: Retry, Delete, Reset Stuck Jobs (Force).
Operator ==
    \/ \E id \in JobIds : Reset(id)
    \/ \E id \in JobIds : Delete(id)
    \/ FailStuck(0)

Next ==
    \/ \E w \in Workers : WorkerStep(w)
    \/ Enqueue
    \/ Operator

Spec == Init /\ [][Next]_vars

\* Rows as the program leaves them: enqueued at t; finished with a video;
\* marked by fail_stuck_jobs(0).
PendingRow(topic, t) == NewRow(topic, "General", "pending", "None", NULL, t)
SuccessRow ==
    [PendingRow("Ocean Facts", 0) EXCEPT !.status = "success", !.attempts = 1,
                                         !.output_path = "v1.mp4",
                                         !.duration_seconds = "elapsed"]
FailedRow ==
    [PendingRow("Space Facts", 0) EXCEPT !.status = "failed",
                                         !.error_message = "System crash or restart"]

\* SpecClaim: NumCallers threads each call claim_next_pending_job once,
\* against a store holding any number of pending Jobs.
InitClaim ==
    /\ jobs \in [JobIds -> {NoRow, SuccessRow} \cup
                           {PendingRow("Ocean Facts", t) : t \in Times}]
    /\ dbLock = 0
    /\ now = MaxTime
    /\ stopEvent = FALSE
    /\ stuckCall = -1
    /\ InitWorkers(Callers, "begin")
    /\ InitRest

NextClaim ==
    \E w \in Callers :
        \/ ClaimBegin(w)
        \/ ClaimSelect(w)
        \/ ClaimCommit(w)

SpecClaim == InitClaim /\ [][NextClaim]_vars

\* SpecInsert: NumInserters callers of insert_job / add_job race on a store
\* that already holds rows; rows are deleted in between.
InitInsert ==
    /\ jobs \in [JobIds -> {NoRow, SuccessRow, FailedRow}]
    /\ dbLock = 0
    /\ now = 0
    /\ stopEvent = FALSE
    /\ stuckCall = -1
    /\ InitWorkers({}, "poll")
    /\ InitRest

NextInsert ==
    \/ \E p \in Inserters, id \in JobIds, topic \in Topics, meta \in Metas :
          \/ InsertSelect(p, "insert_job", id, topic, "General", "processing", meta, NULL)
          \/ InsertSelect(p, "add_job", id, topic, "General", "pending", meta, "hash")
    \/ \E p \in Inserters : InsertWrite(p)
    \/ \E id \in JobIds : Delete(id)
    \/ Tick

SpecInsert == InitInsert /\ [][NextInsert]_vars

\* The empty store and one worker thread started.
InitOneWorker ==
    /\ jobs = [id \in JobIds |-> NoRow]
    /\ dbLock = 0
    /\ now = 0
    /\ stopEvent = FALSE
    /\ stuckCall = -1
    /\ InitWorkers({1}, "poll")
    /\ InitRest

\* SpecFault: one worker thread, and every store call and config.reload()
\* of the thread may raise.
NextFault ==
    \/ LoopCheck(1)
    \/ ClaimBegin(1)
    \/ ClaimFail(1)
    \/ ClaimSelect(1)
    \/ ClaimCommit(1)
    \/ Wake(1)
    \/ \E fail \in BOOLEAN : ProcessStart(1, fail)
    \/ \E fail \in BOOLEAN : ConfigReload(1, fail)
    \/ RunTask(1, Results)
    \/ \E fail \in BOOLEAN : RecordOutcome(1, fail)
    \/ RecordDuration(1)
    \/ Enqueue

SpecFault == InitOneWorker /\ [][NextFault]_vars

\* SpecTime: one worker thread, the clock, process crashes and the
\* operator's fail_stuck_jobs(timeout).
NextTime ==
    \/ LoopCheck(1)
    \/ ClaimBegin(1)
    \/ ClaimSelect(1)
    \/ ClaimCommit(1)
    \/ Wake(1)
    \/ ProcessStart(1, FALSE)
    \/ ConfigReload(1, FALSE)
    \/ RunTask(1, {NoResult, [kind |-> "dict", videos |-> <<"v1.mp4">>]})
    \/ RecordOutcome(1, FALSE)
    \/ RecordDuration(1)
    \/ Enqueue
    \/ \E timeout \in 0..MaxTimeout : FailStuck(timeout)
    \/ Crash
    \/ Tick

SpecTime == InitOneWorker /\ [][NextTime]_vars

\* SpecBatch: run_batch works through topics in its three modes while the
\* operator uses the dashboard.
BatchStep ==
    \/ \E topic \in Topics, mode \in {"normal", "force", "resume"}, fileExists \in BOOLEAN :
          BatchLookup(topic, mode, fileExists)
    \/ BatchDelete
    \/ \E id \in JobIds : BatchInsert(id)
    \/ \E fileExists \in BOOLEAN : BatchFileCheck(fileExists)
    \/ \E r \in AttemptResults : BatchAttempt(r)
    \/ BatchSleep

InitBatchOnly ==
    /\ jobs = [id \in JobIds |-> NoRow]
    /\ dbLock = 0
    /\ now = 0
    /\ stopEvent = FALSE
    /\ stuckCall = -1
    /\ InitWorkers({}, "poll")
    /\ InitRest

NextBatch ==
    \/ BatchStep
    \/ Operator

SpecBatch == InitBatchOnly /\ [][NextBatch]_vars

\* ---------------------------------------------------------- properties
\* Thread w is inside _process_job for the job it claimed.
Executing(w) == wpc[w] \in {"claimed", "reload", "run", "record", "duration"}

ExecutingJob(w, id) == Executing(w) /\ wjob[w].id = id

\* C2: in every reachable state at most one worker thread is executing a
\* given Job, whatever the operator does in between.
C2_OneWorkerPerJob ==
    \A w1, w2 \in Threads :
        (w1 # w2 /\ Executing(w1) /\ Executing(w2)) => wjob[w1].id # wjob[w2].id

\* The step is the commit of a claim of id / the terminal update of an
\* execution of id / a reset of id.
IsClaimOf(id) == \E w \in Threads : ClaimCommit(w) /\ wjob[w].id = id
IsOutcomeOf(id) ==
    \/ \E w \in Threads : RecordOutcome(w, FALSE) /\ wjob[w].id = id
    \/ \E r \in AttemptResults : BatchAttempt(r) /\ bid = id
IsResetOf(id) == Reset(id)
IsFailStuck == \E timeout \in 0..MaxTimeout : FailStuck(timeout)

C3_Step(id) ==
    LET a == jobs[id].status
        b == jobs'[id].status
    IN  a # b =>
          \/ b = "absent"
          \/ a = "absent" /\ b = "pending"
          \/ a = "pending" /\ b = "processing" /\ IsClaimOf(id)
          \/ a = "processing" /\ b \in {"success", "failed"}
                /\ (IsOutcomeOf(id) \/ IsFailStuck)
          \/ b = "pending" /\ IsResetOf(id)

\* C3: a Job enters the store pending, and its status moves only
\* pending -> processing by a claim, processing -> success | failed by the
\* outcome of its execution or by fail_stuck_jobs, and to pending only by
\* reset_job_for_retry (a Job may also be deleted).
C3_Lifecycle == [][\A id \in JobIds : C3_Step(id)]_vars

C4_Step(id) ==
    (HasRow(jobs, id) /\ HasRow(jobs', id)) =>
        IF IsOutcomeOf(id) THEN jobs'[id].attempts = jobs[id].attempts + 1
        ELSE IF IsResetOf(id) THEN jobs'[id].attempts = 0
        ELSE jobs'[id].attempts = jobs[id].attempts

\* C4: the stored attempts of a Job grows by exactly one when an execution
\* of the Job ends (in a worker thread or in run_batch), is set to 0 by
\* reset_job_for_retry, and is left alone by every other step.
C4_AttemptsCount == [][\A id \in JobIds : C4_Step(id)]_vars

\* The step in which thread w makes the terminal update / the duration
\* update of _process_job.
LeavesRecord(w) == wpc[w] = "record" /\ wpc'[w] = "duration"
LeavesDuration(w) == wpc[w] = "duration" /\ wpc'[w] = "poll"

C6_Step(w) ==
    LET id == wjob[w].id
        r == wres[w]
    IN  /\ (LeavesRecord(w) /\ r.kind # "raise" /\ HasRow(jobs, id)) =>
              /\ jobs'[id].attempts = wjob[w].attempts + 1
              /\ IF r.kind = "dict" /\ r.videos # <<>>
                 THEN /\ jobs'[id].status = "success"
                      /\ jobs'[id].output_path = Head(r.videos)
                 ELSE /\ jobs'[id].status = "failed"
                      /\ jobs'[id].error_message \notin {NULL, "", "str(e)"}
                      /\ jobs'[id].output_path = jobs[id].output_path
        /\ (LeavesDuration(w) /\ HasRow(jobs, id)) =>
              jobs'[id].duration_seconds # NULL

\* C6: when the execution of a claimed Job ends without an exception, the
\* row becomes success with output_path the first video path exactly when
\* the result holds a non-empty videos list, and failed with the generic
\* message otherwise; attempts becomes the claimed attempts + 1; the next
\* store call of the thread records a duration.
C6_OutcomeRecorded == [][\A w \in Threads : C6_Step(w)]_vars

\* A fresh Job recorded as success from a result of two videos, with its
\* duration.
C6_Witness ==
    \E id \in JobIds :
        /\ HasRow(jobs, id)
        /\ jobs[id].status = "success"
        /\ jobs[id].output_path = "v2.mp4"
        /\ jobs[id].attempts = 1
        /\ jobs[id].duration_seconds # NULL

\* The calls of claim_next_pending_job that have returned, and those that
\* returned a Job.
Returned == {w \in Callers : wpc[w] \in {"claimed", "idle"}}
Got == {w \in Callers : wpc[w] = "claimed"}

\* The Jobs that were pending when the race began: nothing but a claim
\* moves a row under SpecClaim.
RacedFor == {id \in JobIds : HasRow(jobs, id) /\ jobs[id].status \in {"pending", "processing"}}

\* C1: no Job is returned to two callers of claim_next_pending_job, and
\* once N racing callers have returned against M pending Jobs, min(M, N)
\* of them hold a Job (M when N > M) and the others got none.
C1_AtomicClaim ==
    /\ \A w1, w2 \in Got : w1 # w2 => wjob[w1].id # wjob[w2].id
    /\ Returned = Callers =>
          /\ Cardinality(Got) = IF Cardinality(RacedFor) < NumCallers
                                THEN Cardinality(RacedFor) ELSE NumCallers
          /\ \A w \in Callers \ Got : wjob[w] = NoJob

\* More callers than pending Jobs: every Job went to one caller, and a
\* caller came back with none.
C1_Witness ==
    /\ Returned = Callers
    /\ Cardinality(RacedFor) = MaxJobs
    /\ Cardinality(Got) = MaxJobs
    /\ Callers \ Got # {}

\* The step in which caller p of insert_job / add_job runs its INSERT.
RunsInsert(p) == ipc[p] = "insert" /\ ipc'[p] = "idle"

\* C5: insert_job / add_job with an id that is in the store changes no
\* field of an existing row, also when the row appeared between the SELECT
\* and the INSERT of the call.
C5_InsertExistingNoOp ==
    [][\A p \in Inserters :
          RunsInsert(p) => \A id \in JobIds : HasRow(jobs, id) => jobs'[id] = jobs[id]]_vars

\* A caller is about to INSERT an id that another caller has inserted
\* since its SELECT, with other values.
C5_Witness ==
    \E p \in Inserters :
        /\ ipc[p] = "insert"
        /\ HasRow(jobs, iarg[p].id)
        /\ jobs[iarg[p].id].topic # iarg[p].topic
        /\ jobs[iarg[p].id].status # iarg[p].status

\* The step in which an exception raised while thread w handles its Job
\* ends the handling: config.reload() raised, or the except of _process_job
\* has made its store calls.
EndsRaised(w) ==
    \/ wpc[w] = "reload" /\ wpc'[w] = "idle"
    \/ wpc[w] = "duration" /\ wpc'[w] = "poll" /\ wres[w].kind = "raise"

C7_Step(w) ==
    LET id == wjob[w].id
    IN  (EndsRaised(w) /\ HasRow(jobs', id)) =>
            /\ jobs'[id].status = "failed"
            /\ jobs'[id].error_message = "str(e)"
            /\ jobs'[id].attempts = wjob[w].attempts + 1
            /\ wpc'[w] \notin {"stopped", "off"}

\* C7: when an exception is raised while a thread handles a claimed Job,
\* the Job is failed with the exception's message and attempts + 1 when the
\* handling ends, and the thread goes on polling.
C7_ExceptionRecorded == [][\A w \in Threads : C7_Step(w)]_vars

\* C8: a store failure inside claim_next_pending_job or inside the
\* terminal update_job_status reaches the except of _run_loop, so no Job
\* is processing with nobody executing it unless the loop saw an error.
C8_StoreFailurePropagates ==
    /\ \A w \in Threads : wdbErr[w] = 1 => wloopErr[w] = 1
    /\ \A id \in JobIds :
          (HasRow(jobs, id) /\ jobs[id].status = "processing"
              /\ ~\E w \in Threads : ExecutingJob(w, id))
          => \E w \in Threads : wloopErr[w] = 1

\* Clock ticks since the row was last updated.
Age(id) == now - jobs[id].updated_at.t

\* C9: fail_stuck_jobs(timeout) leaves no Job processing that nobody
\* executes and that was last updated more than timeout ago.
C9_StuckJobFailed ==
    stuckCall >= 0 =>
        \A id \in JobIds :
            ~ /\ HasRow(jobs, id)
              /\ jobs[id].status = "processing"
              /\ ~\E w \in Threads : ExecutingJob(w, id)
              /\ Age(id) > stuckCall

C10_Row(id, timeout) ==
    LET a == jobs[id]
        b == jobs'[id]
    IN  IF a # b
        THEN /\ a.status = "processing"
             /\ timeout > 0 => a.updated_at.t < now - timeout
             /\ b.status = "failed"
             /\ b.error_message \notin {NULL, ""}
             /\ b = [a EXCEPT !.status = "failed", !.error_message = b.error_message]
        ELSE timeout = 0 => a.status # "processing"

\* C10: a call of fail_stuck_jobs(timeout) changes only rows that are
\* processing (with timeout 0 all of them, with timeout > 0 only rows last
\* updated before now - timeout); a changed row becomes failed with a
\* sentinel error_message and keeps every other column; nothing else of
\* the store or of the threads changes.
C10_FailStuckFrame ==
    [][\A timeout \in 0..MaxTimeout :
          FailStuck(timeout) =>
              /\ \A id \in JobIds : C10_Row(id, timeout)
              /\ UNCHANGED <<dbLock, now, stopEvent, workerVars, insertVars, batchVars, taskVars, cacheVars, poolVars, fileVars>>]_vars

\* After fail_stuck_jobs(1): an old processing Job is failed with the
\* timeout sentinel, a younger processing Job and a success Job are as
\* before.
C10_Witness ==
    /\ stuckCall = 1
    /\ \E id \in JobIds :
          /\ HasRow(jobs, id)
          /\ jobs[id].status = "failed"
          /\ jobs[id].error_message = "Timeout/Stuck"
    /\ \E id \in JobIds :
          /\ HasRow(jobs, id)
          /\ jobs[id].status = "processing"
          /\ jobs[id].updated_at.sep = " "

\* The rows of status pending, and whether none of them was created
\* before row id (by the clock, not by the stored text).
C11_Pending == {id \in JobIds : jobs[id] # NoRow /\ jobs[id].status = "pending"}
C11_Earliest(id) ==
    /\ id \in C11_Pending
    /\ \A o \in C11_Pending : jobs[o].created_at.t >= jobs[id].created_at.t

\* C11: a call of claim_next_pending_job returns a pending Job of the
\* earliest creation time, sets that Job and no other to processing, and
\* leaves every other row as it was; with no pending Job it returns none
\* and changes no row.
C11_ClaimOldest ==
    [][\A w \in Threads :
          ClaimCommit(w) =>
              IF C11_Pending = {}
              THEN wjob[w] = NoJob /\ jobs' = jobs /\ wpc'[w] = "idle"
              ELSE /\ wjob[w] # NoJob
                   /\ wpc'[w] = "claimed"
                   /\ C11_Earliest(wjob[w].id)
                   /\ wjob[w].topic = jobs[wjob[w].id].topic
                   /\ jobs'[wjob[w].id].status = "processing"
                   /\ \A f \in (DOMAIN jobs[wjob[w].id]) \ {"status", "updated_at"} :
                         jobs'[wjob[w].id][f] = jobs[wjob[w].id][f]
                   /\ \A o \in JobIds \ {wjob[w].id} : jobs'[o] = jobs[o]]_vars

\* A caller holds the older of two pending Jobs, now processing, while the
\* younger one is still pending.
C11_Witness ==
    /\ \E w \in Callers, o \in JobIds :
          /\ wpc[w] = "claimed"
          /\ jobs[wjob[w].id].status = "processing"
          /\ jobs[o] # NoRow
          /\ jobs[o].status = "pending"
          /\ jobs[o].created_at.t > jobs[wjob[w].id].created_at.t

\* SpecTask: a caller runs start up to MaxRuns times, on any task id, with
\* any stop_at marker, source and parameters; collaborators give any
\* outcome.
NextTask ==
    \/ \E id \in JobIds, stop_at \in StopAtValues, video_source \in {"pexels", "local"},
          video_count \in {0, 1}, given \in SUBSET {"video_script"},
          subtitle_enabled \in BOOLEAN :
          DirectCall(id, stop_at, video_source, video_count, given, subtitle_enabled)
    \/ TaskStep
    \/ Raise
    \/ DirectReturn

SpecTask == InitBatchOnly /\ [][NextTask]_vars

\* SpecProgress: one call of start with any video_count.
NextProgress ==
    \/ \E stop_at \in StopMarkers, video_count \in 1..MaxVideoCount :
          DirectCall(1, stop_at, "pexels", video_count, {}, TRUE)
    \/ RemoteTaskStep
    \/ DirectReturn

SpecProgress == InitBatchOnly /\ [][NextProgress]_vars

\* SpecRetry: run_batch with its calls of start carried out step by step.
NextRetry ==
    \/ \E topic \in Topics, mode \in {"normal", "force", "resume"}, fileExists \in BOOLEAN :
          BatchLookup(topic, mode, fileExists)
    \/ BatchDelete
    \/ \E id \in JobIds : BatchInsert(id)
    \/ \E fileExists \in BOOLEAN : BatchFileCheck(fileExists)
    \/ \E given \in {{}, {"video_terms"}} : BatchCall(given)
    \/ RemoteTaskStep
    \/ Raise
    \/ BatchReturn
    \/ BatchSleep

SpecRetry == InitBatchOnly /\ [][NextRetry]_vars

\* QUEUED before PROCESSING before COMPLETE and FAILED
C12_Rank(state) == IF state = "QUEUED" THEN 0 ELSE IF state = "PROCESSING" THEN 1 ELSE 2

\* C12: the state of a Task never moves backwards, and once it is COMPLETE
\* or FAILED no update changes the state or the recorded outputs, over all
\* the calls of start for that id (the attempts of a batch topic included).
C12_StateForwardOnly ==
    [][\A id \in JobIds :
          /\ C12_Rank(tasks'[id].state) >= C12_Rank(tasks[id].state)
          /\ tasks[id].state \in {"COMPLETE", "FAILED"} =>
                /\ tasks'[id].state = tasks[id].state
                /\ tasks'[id].outputs = tasks[id].outputs]_vars

\* C13: within one call of start the progress of the Task never decreases
\* and stays within 0..100, whatever video_count and stop_at are (the
\* update that opens a call, progress 5, is not compared with the call
\* before it).
C13_ProgressMonotone ==
    [][\A id \in JobIds :
          /\ ~FloatLess(tasks'[id].progress, FromInt(0))
          /\ ~FloatLess(FromInt(100), tasks'[id].progress)
          /\ tpc # "preflight" =>
                ~FloatLess(tasks'[id].progress, tasks[id].progress)]_vars

\* A call of start is under way or has returned, with its arguments in tcall.
InCall == tpc # "idle" /\ tcall # NoCall

\* C14: a call of start with stop_at = "terms" that obtains a script and
\* terms returns them with the Task COMPLETE; no call with stop_at "script"
\* or "terms" ever reaches the audio synthesis or the material acquisition,
\* and with stop_at = "script" the terms generator is not reached either.
C14_StopAtTerms ==
    /\ (InCall /\ tcall.stop_at \in {"script", "terms"}) =>
          /\ invoked \cap {"generate_audio", "voice.tts", "get_video_materials",
                           "material.download_videos", "video.preprocess_video"} = {}
          /\ apc = "off"
          /\ mpc = "off"
    /\ (InCall /\ tcall.stop_at = "script") =>
          invoked \cap {"generate_terms", "llm.generate_terms",
                        "llm.generate_scene_terms"} = {}
    /\ (InCall /\ tcall.stop_at = "terms" /\ tpc \notin {"preflight", "script", "stop_script", "terms", "scene", "save"}) =>
          /\ tpc = "returned"
          /\ \/ tres \in {NoResult, RaiseResult}
             \/ /\ tres = DictResult({"script", "terms"}, <<>>)
                /\ tasks[tcall.id].state = "COMPLETE"
                /\ tloc.video_script # ""
          /\ (tloc.video_script # "" /\ "generate_terms" \in invoked /\ tloc.video_terms # ""
              /\ tres # RaiseResult) =>
                tres = DictResult({"script", "terms"}, <<>>)

\* A call with stop_at = "terms" has returned script and terms, both from
\* the generator.
C14_Witness ==
    /\ tpc = "returned"
    /\ tcall.stop_at = "terms"
    /\ tres = DictResult({"script", "terms"}, <<>>)
    /\ tasks[tcall.id].state = "COMPLETE"
    /\ {"llm.generate_script", "llm.generate_terms"} \subseteq invoked

\* The call has returned keys as its partial result, with the Task COMPLETE.
C15_Done(keys) ==
    /\ tres = DictResult(keys, <<>>)
    /\ tasks[tcall.id].state = "COMPLETE"

\* C15: a call with stop_at = s in which stage s (and with it the stages it
\* depends on) succeeded returns the partial result of s with the Task
\* COMPLETE, whatever the other stages gave: for audio whatever the
\* material acquisition returned, for materials whatever the audio gave.
C15_StopAtReturnsPartial ==
    (tpc = "returned" /\ tcall # NoCall /\ tres # RaiseResult) =>
        /\ (tcall.stop_at = "script" /\ tloc.video_script # "") => C15_Done({"script"})
        /\ (tcall.stop_at = "terms" /\ tloc.video_terms # "") =>
              C15_Done({"script", "terms"})
        /\ (tcall.stop_at = "audio" /\ tloc.fut_audio = "ok") =>
              C15_Done({"audio_file", "audio_duration"})
        /\ (tcall.stop_at = "materials" /\ tloc.fut_materials = "videos") =>
              C15_Done({"materials"})
        /\ (tcall.stop_at = "subtitle" /\ "generate_subtitle" \in invoked) =>
              C15_Done({"subtitle_path"})

\* The stage functions that come after a stage in start.
C16_After(stage) ==
    IF stage = "generate_script"
    THEN {"generate_terms", "generate_audio", "get_video_materials",
          "generate_subtitle", "generate_final_videos"}
    ELSE IF stage = "generate_terms"
    THEN {"generate_audio", "get_video_materials", "generate_subtitle",
          "generate_final_videos"}
    ELSE IF stage \in {"generate_audio", "get_video_materials"}
    THEN {"generate_subtitle", "generate_final_videos"}
    ELSE IF stage = "generate_subtitle" THEN {"generate_final_videos"}
    ELSE {}

\* Stage functions that have given an empty output in the call under way.
C16_Empty ==
    {stage \in invoked :
        \/ stage = "generate_script" /\ tloc.video_script = ""
        \/ stage = "generate_terms" /\ tloc.video_terms = ""
        \/ stage = "generate_audio" /\ tloc.fut_audio = "none"
        \/ stage = "get_video_materials" /\ tloc.fut_materials = ""
        \/ stage = "generate_subtitle" /\ tloc.subtitle_path = ""
        \/ stage = "generate_final_videos" /\ tpc = "returned" /\ tloc.videos = <<>>}

\* After an empty output of a stage of S: no later stage is entered, and
\* the call returns no result with the Task FAILED, which the worker
\* records as a failed Job with an error_message.
C16_FailsOn(S) ==
    (InCall /\ tres # RaiseResult) =>
        \A stage \in C16_Empty \cap S :
            /\ invoked \cap C16_After(stage) = {}
            /\ tpc = "returned" =>
                  /\ tres = NoResult
                  /\ tasks[tcall.id].state = "FAILED"
                  /\ Outcome(tres).status = "failed"
                  /\ Outcome(tres).error_message \notin {NULL, ""}

\* C16 as claimed: an empty output of any stage, Subtitle included, ends
\* the Task FAILED with no later stage entered.
C16_AnyEmptyStageFails ==
    C16_FailsOn({"generate_script", "generate_terms", "generate_audio",
                 "get_video_materials", "generate_subtitle", "generate_final_videos"})

\* C16, amended: an empty output of any stage other than Subtitle ends the
\* Task FAILED with no later stage entered; when the material acquisition
\* returns empty, Subtitle and Assembly are not entered, start returns
\* None and the worker records the Job failed with an error_message.
C16_EmptyStageFails ==
    C16_FailsOn({"generate_script", "generate_terms", "generate_audio",
                 "get_video_materials", "generate_final_videos"})

\* The audio is there, the material acquisition gave nothing, start has
\* returned.
C16_Witness ==
    /\ tpc = "returned"
    /\ tloc.fut_audio = "ok"
    /\ tloc.fut_materials = ""
    /\ tres = NoResult
    /\ tasks[tcall.id].state = "FAILED"

\* C17: within one call of start, generate_terms is entered only with the
\* script at hand, the audio and the materials only after the terms stage
\* (skipped for a local source) and the saving of the script, the subtitle
\* only when both pool threads have returned with an audio and materials,
\* the assembly only after the subtitle; while a pool thread is running
\* the thread of start is waiting, so nothing but audio and materials
\* overlaps.
C17_StageOrder ==
    InCall =>
        /\ "generate_terms" \in invoked =>
              "generate_script" \in invoked /\ tloc.video_script # ""
        /\ (apc # "off" \/ mpc # "off" \/ "get_video_materials" \in invoked) =>
              /\ tloc.video_script # ""
              /\ <<"script", 0>> \in disk[tcall.id]
              /\ tcall.video_source # "local" =>
                    "generate_terms" \in invoked /\ tloc.video_terms # ""
        /\ (apc = "running" \/ mpc = "running") =>
              tpc \in {"wait_audio", "wait_materials", "join"}
        /\ "generate_subtitle" \in invoked =>
              /\ apc = "done"
              /\ mpc \in {"done", "off"}
              /\ tloc.fut_audio = "ok"
              /\ tloc.fut_materials = "videos"
        /\ "generate_final_videos" \in invoked => "generate_subtitle" \in invoked
        /\ tpc \in {"subtitle", "combine", "generate", "finish"} =>
              apc = "done" /\ mpc \in {"done", "off"}

\* Both pool threads are running at once.
C17_Witness ==
    /\ tpc = "wait_audio"
    /\ apc = "running"
    /\ mpc = "running"

\* C18: when a call of start has obtained a script, script.json with that
\* script is in the task directory once the call has returned, whatever
\* stop_at is and whatever a later stage gave, so that the next call for
\* the id reads the script from the file.
C18_ScriptPersisted ==
    (tpc = "returned" /\ tcall # NoCall /\ tloc.video_script # "") =>
        <<"script", 0>> \in disk[tcall.id]

\* C19: when an attempt of run_batch for a topic has failed (start gave no
\* video, or raised), the files the attempt left in the task directory are
\* still there for the next attempt.
C19_ArtifactsKept ==
    [][(/\ tpc = "returned"
        /\ tcall.caller = "batch"
        /\ tpc' = "idle"
        /\ AttemptKind(tres, disk[tcall.id]) \in {"none", "raise"}) =>
            disk'[tcall.id] = disk[tcall.id]]_vars

\* SpecCache: callers set and get entries of the response cache while time
\* passes.
NextCache ==
    \/ \E prompt_type \in PromptTypes, kwargs \in KwargLists : CacheGet(prompt_type, kwargs)
    \/ CacheGetReturn
    \/ \E prompt_type \in PromptTypes, response \in {"R1", "R2"}, kwargs \in KwargLists :
          CacheSet(prompt_type, response, kwargs)
    \/ CacheClearExpired
    \/ CacheTick

SpecCache == InitBatchOnly /\ [][NextCache]_vars

\* C20: a get returns the response of the most recent set with the same
\* operation kind and the same set of parameter name / value pairs, in
\* whatever order the keywords were passed, when that set is less than the
\* TTL old, and a miss when it is older.
C20_LastSet(prompt_type, kwargs) ==
    {h \in chist : h.prompt_type = prompt_type /\ h.params = ParamSet(kwargs)}
C20_GetReturnsLastSet ==
    (cret # NoGet /\ cret.op = "get") =>
        \A h \in C20_LastSet(cret.prompt_type, cret.kwargs) :
            /\ cnow - h.at < CacheTtlSeconds * TicksPerSecond => cret.value = h.response
            /\ cnow - h.at > CacheTtlSeconds * TicksPerSecond => cret.value = "None"

\* C21: clear_expired deletes exactly the entries that get treats as
\* expired (age not less than the TTL), returns the number of rows it
\* deleted and leaves every valid entry unchanged.
C21_Expired(r, t) == t - r.created_at * TicksPerSecond >= CacheTtlSeconds * TicksPerSecond
C21_ClearDeletesExpired ==
    [][(cret = NoGet /\ cret' # NoGet /\ cret'.op = "clear_expired" /\ ~cdown) =>
          /\ cache' = {r \in cache : ~C21_Expired(r, cnow)}
          /\ cret'.deleted = Cardinality(cache \ cache')]_vars

\* SpecCacheFault: the cache is used while its store may be unavailable
\* and with parameters that cannot be serialized.
NextCacheFault ==
    \/ \E kwargs \in {<<>>} \cup BadKwargLists : CacheGet("script", kwargs)
    \/ CacheGetReturn
    \/ \E response \in {"R1", "R2"}, kwargs \in {<<>>} \cup BadKwargLists :
          CacheSet("script", response, kwargs)
    \/ CacheClearExpired
    \/ CacheStoreFlip
    \/ CacheTick

SpecCacheFault == InitBatchOnly /\ [][NextCacheFault]_vars

\* C22: no failure inside the cache raises to the caller of get, set or
\* clear_expired, whether the store is unavailable or the parameters
\* cannot be serialized into a key: get gives a miss, set does nothing,
\* clear_expired gives 0.
C22_NeverRaises ==
    cret # NoGet =>
        /\ ~cret.raised
        /\ (cdown /\ cret.op = "get") => cret.value = "None"
        /\ (cdown /\ cret.op = "clear_expired") => cret.deleted = 0

\* SpecPool: the pool is started and stopped with any num_workers, one
\* call after the other, while a Job is enqueued and the threads work.
PoolWorkerStep(w) ==
    \/ LoopCheck(w)
    \/ ClaimBegin(w)
    \/ ClaimSelect(w)
    \/ ClaimCommit(w)
    \/ Wake(w)
    \/ ProcessStart(w, FALSE)
    \/ ConfigReload(w, FALSE)
    \/ RunTask(w, {[kind |-> "dict", videos |-> <<"v1.mp4">>]})
    \/ RecordOutcome(w, FALSE)
    \/ RecordDuration(w)

\* a call of start that is not made during a call of stop
StartCall(num_workers) == ppc = "idle" /\ PoolStart(num_workers)

NextPool ==
    \/ \E num_workers \in {-1, 9} : StartCall(num_workers)
    \/ PoolStop
    \/ PoolStopReturn
    \/ \E w \in Threads : PoolWorkerStep(w)
    \/ InsertSelect(1, "insert_job", 1, "Ocean Facts", "General", "pending", "None", NULL)
    \/ InsertWrite(1)

SpecPool == InitBatchOnly /\ [][NextPool]_vars

\* C23: after any sequence of start(n) and stop() calls the number of live
\* polling threads is at least 1 after a start and never above 5, and a
\* start while workers are alive adds no thread.
C23_Live(pc) == {w \in Threads : pc[w] \notin {"off", "stopped"}}
C23_BoundedPool ==
    [][/\ Cardinality(C23_Live(wpc')) <= MaxThreads
       /\ nstarts' # nstarts =>
             /\ Cardinality(C23_Live(wpc')) >= 1
             /\ C23_Live(wpc) # {} => C23_Live(wpc') \subseteq C23_Live(wpc)]_vars

\* C24: after stop() a thread with a Job in flight finishes the Job and
\* records its outcome, claims no further Job and exits, and an idle thread
\* exits without claiming: a thread that stop() has been called on never
\* goes from its loop test into another claim.
C24_ToldToStop(w) == Alive(w) /\ (w \in pjoin \/ w \notin wthreads)
C24_NoClaimAfterStop ==
    [][\A w \in Threads :
          C24_ToldToStop(w) => ~(wpc[w] = "poll" /\ wpc'[w] = "begin")]_vars

\* SpecFiles: the Tasks run at the same time, each with its search term,
\* video url and configured material directory.
NextFiles == \E id \in JobIds : FileStep(id)

SpecFiles == InitBatchOnly /\ [][NextFiles]_vars

\* C25: two Tasks with different ids that run concurrently never write
\* to, or read a file being written at, the same path: every file a run
\* writes lies under a location scoped to its own Task id.
C25_Writes(id) == {a \in dacc[id] : a[1] = "w"}
C25_PathsScoped ==
    \A id1, id2 \in JobIds : id1 # id2 =>
        \A a \in C25_Writes(id1) : \A b \in dacc[id2] : a[2] # b[2]

\* C26: run_batch executes a topic at most 3 times, stops at the first
\* attempt that produces a video, sleeps a strictly larger delay before
\* each further attempt (60 s, then 120 s) and records the Job as failed
\* only after the last attempt has failed.
C26_Status(js, id) == IF HasRow(js, id) THEN js[id].status ELSE "absent"
C26_AttemptStep(r) ==
    BatchAttempt(r) =>
        /\ battempt \in 1..3
        /\ r = "video" => bpc' = "idle" /\ C26_Status(jobs', bid) \in {"success", "absent"}
        /\ bpc' = "sleep" =>
              /\ r \in {"none", "raise"} /\ battempt < 3
              /\ bdelay' > bdelay
              /\ bdelay' = IF battempt = 1 THEN 60 ELSE 120
        /\ (C26_Status(jobs', bid) = "failed" /\ C26_Status(jobs, bid) # "failed") =>
              r \in {"none", "raise"} /\ battempt = 3
        /\ (r \in {"none", "raise"} /\ battempt < 3) => bpc' = "sleep"
C26_BoundedRetries ==
    [][/\ \A r \in AttemptResults : C26_AttemptStep(r)
       /\ BatchSleep => battempt' = battempt + 1 /\ battempt' <= 3]_vars
\* the third attempt of a topic starts after the sleeps of 60 s and 120 s
C26_Witness == bpc = "attempt" /\ battempt = 3 /\ bdelay = 120

\* C27: when run_batch is done with a topic (executed, skipped because
\* the output file exists, or finished with a result whose file is
\* missing), the Job row it inserted for the topic is success or failed,
\* never processing.
C27_BatchLeavesTerminal ==
    [][(bpc \in {"check", "attempt"} /\ bpc' = "idle" /\ HasRow(jobs', bid)) =>
          jobs'[bid].status \in {"success", "failed"}]_vars

\* C28: a call of start that has set the Task to PROCESSING and then
\* returns or raises leaves the Task COMPLETE or FAILED, for every stop_at
\* and every params value.
C28_StartLeavesTerminal ==
    tpc = "returned" => tasks[tcall.id].state \in {"COMPLETE", "FAILED"}

\* C29: once fail_stuck_jobs(0) has completed no Job is processing until
\* a later claim succeeds: a Job it has failed is not put back into
\* processing by the worker that had claimed it before the call.
C29_ForceFailed(js, id) ==
    /\ HasRow(js, id)
    /\ js[id].status = "failed"
    /\ js[id].error_message = "System crash or restart"
C29_NoProcessingAfterForce ==
    [][\A id \in JobIds :
          (C29_ForceFailed(jobs, id) /\ HasRow(jobs', id)) =>
              jobs'[id].status # "processing"]_vars

\* C30: in every reachable state a Job whose status is success has no
\* error_message.
C30_SuccessHasNoError ==
    \A id \in JobIds :
        (HasRow(jobs, id) /\ jobs[id].status = "success") => jobs[id].error_message = NULL

====
